---- MODULE Spec2Model ----
(***************************************************************************)
(* The completion engine of vscode-httpyac (HttpCompletionItemProvider):   *)
(* provideCompletionItems and the six candidate streams it concatenates.   *)
(* Strings the code inspects character by character (line text, candidate  *)
(* names, insert texts) are sequences of one-character strings; strings    *)
(* the code only copies (descriptions, extension keys) are strings.        *)
(***************************************************************************)
EXTENDS Integers, Sequences, FiniteSets, TLC

VARIABLES
  types,          \* the extension -> content-type object of mime-types
  knownMetaData,  \* httpyac.parser.knownMetaData
  req,            \* the invocations of provideCompletionItems, by slot
  showNotificationPopup,  \* getConfigSetting().showNotificationPopup
  wrapped,        \* the invocations of an errorHandler wrapper, by slot
  environmentStore,       \* httpyac's environmentStore
  environmentController,  \* the EnvironmentController
  config,                 \* getConfigSetting(), as the StoreController reads it
  documentStore,          \* the DocumentStore (activeEnvironment)
  httpFiles,              \* the HttpFile of every document, by file name
  environmentChanged,     \* what environmentChangedEmitter fired last
  envStatusBarItem,       \* StoreController.envStatusBarItem
  toggle,                 \* the invocations of StoreController.toggleEnv, by slot
  activeEditor            \* the invocation of refreshStatusBarItemWithEditor

vars == <<types, knownMetaData, req, showNotificationPopup, wrapped,
          environmentStore, environmentController,
          config, documentStore, httpFiles, environmentChanged,
          envStatusBarItem, toggle, activeEditor>>

\* What the error handler reads and writes; the completion engine does neither.
handlerVars == <<showNotificationPopup, wrapped>>

\* What EnvironmentController.initEnvironmentProvider reads and writes.
environmentVars == <<environmentStore, environmentController>>

\* What the StoreController reads and writes.
storeVars == <<config, documentStore, httpFiles, environmentChanged,
               envStatusBarItem, toggle, activeEditor>>

----------------------------------------------------------------------------
\* String primitives of the JavaScript runtime, as the code uses them.

\* String.prototype.toLowerCase on the letters the tables and inputs hold.
LowerMap ==
  "A" :> "a" @@ "B" :> "b" @@ "C" :> "c" @@ "D" :> "d" @@ "E" :> "e" @@
  "F" :> "f" @@ "G" :> "g" @@ "H" :> "h" @@ "I" :> "i" @@ "J" :> "j" @@
  "K" :> "k" @@ "L" :> "l" @@ "M" :> "m" @@ "N" :> "n" @@ "O" :> "o" @@
  "P" :> "p" @@ "Q" :> "q" @@ "R" :> "r" @@ "S" :> "s" @@ "T" :> "t" @@
  "U" :> "u" @@ "V" :> "v" @@ "W" :> "w" @@ "X" :> "x" @@ "Y" :> "y" @@
  "Z" :> "z"

toLowerCase(s) ==
  [i \in 1..Len(s) |-> IF s[i] \in DOMAIN LowerMap THEN LowerMap[s[i]] ELSE s[i]]

\* Whitespace as String.prototype.trim sees it (space and tab occur here).
IsWhiteSpace(c) == c \in {" ", "\t"}

trim(s) ==
  LET keep == {i \in 1..Len(s) : ~IsWhiteSpace(s[i])}
  IN  IF keep = {} THEN <<>>
      ELSE LET lo == CHOOSE i \in keep : \A j \in keep : i <= j
               hi == CHOOSE i \in keep : \A j \in keep : j <= i
           IN  SubSeq(s, lo, hi)

startsWith(s, p) == Len(p) <= Len(s) /\ SubSeq(s, 1, Len(p)) = p

\* s.indexOf(sub) >= 0
includes(s, sub) ==
  \E i \in 0..(Len(s) - Len(sub)) : SubSeq(s, i + 1, i + Len(sub)) = sub

\* s.slice(n) for n >= 0
slice(s, n) == SubSeq(s, n + 1, Len(s))

\* Array.prototype.find, given the indices of the elements that satisfy the
\* predicate: the index of the first of them (0: undefined).
findIndex(matching) ==
  IF matching = {} THEN 0
  ELSE CHOOSE i \in matching : \A j \in matching : i <= j

\* The concatenation of a sequence of sequences, in order.
RECURSIVE flatten(_)
flatten(ss) == IF ss = <<>> THEN <<>> ELSE Head(ss) \o flatten(Tail(ss))

----------------------------------------------------------------------------
\* The candidate tables, entry for entry as the source declares them.

\* part_000:96-166, the literal of getRequstMethodCompletionItems.
MethodTable ==
  <<
    [name |-> <<"G", "E", "T">>,
     description |-> "The GET method requests a representation of the specified resource. Requests using GET should only retrieve data.",
     kind |-> "Keyword"],
    [name |-> <<"H", "E", "A", "D">>,
     description |-> "The GET method requests a representation of the specified resource. Requests using GET should only retrieve data.",
     kind |-> "Keyword"],
    [name |-> <<"P", "O", "S", "T">>,
     description |-> "The POST method is used to submit an entity to the specified resource, often causing a change in state or side effects on the server.",
     kind |-> "Keyword"],
    [name |-> <<"P", "U", "T">>,
     description |-> "The PUT method replaces all current representations of the target resource with the request payload.",
     kind |-> "Keyword"],
    [name |-> <<"D", "E", "L", "E", "T", "E">>,
     description |-> "The DELETE method deletes the specified resource.",
     kind |-> "Keyword"],
    [name |-> <<"C", "O", "N", "N", "E", "C", "T">>,
     description |-> "The CONNECT method establishes a tunnel to the server identified by the target resource.",
     kind |-> "Keyword"],
    [name |-> <<"O", "P", "T", "I", "O", "N", "S">>,
     description |-> "The OPTIONS method is used to describe the communication options for the target resource.",
     kind |-> "Keyword"],
    [name |-> <<"T", "R", "A", "C", "E">>,
     description |-> "The TRACE method performs a message loop-back test along the path to the target resource.",
     kind |-> "Keyword"],
    [name |-> <<"P", "A", "T", "C", "H">>,
     description |-> "The PATCH method is used to apply partial modifications to a resource.",
     kind |-> "Keyword"],
    [name |-> <<"M", "Q", "T", "T">>,
     description |-> "MQTT request",
     kind |-> "Keyword"],
    [name |-> <<"W", "S", "S">>,
     description |-> "WSS request",
     kind |-> "Keyword"],
    [name |-> <<"S", "S", "E">>,
     description |-> "Server Sent Event",
     kind |-> "Keyword"],
    [name |-> <<"G", "R", "P", "C">>,
     description |-> "GRPC request",
     kind |-> "Keyword"]
  >>

\* part_000:180-488, the fields pushed for an HTTP request (the backquote in the
\* description of DNT is written as an apostrophe).
HttpHeaderTable ==
  <<
    [name |-> <<"A", "-", "I", "M">>,
     description |-> "Acceptable instance-manipulations for the request.",
     kind |-> "Field"],
    [name |-> <<"A", "c", "c", "e", "p", "t">>,
     description |-> "Media type(s) that is/are acceptable for the response. See Content negotiation.",
     kind |-> "Field"],
    [name |-> <<"A", "c", "c", "e", "p", "t", "-", "C", "h", "a", "r", "s", "e", "t">>,
     description |-> "Character sets that are acceptable.",
     kind |-> "Field"],
    [name |-> <<"A", "c", "c", "e", "p", "t", "-", "D", "a", "t", "e", "t", "i", "m", "e">>,
     description |-> "Acceptable version in time.",
     kind |-> "Field"],
    [name |-> <<"A", "c", "c", "e", "p", "t", "-", "E", "n", "c", "o", "d", "i", "n", "g">>,
     description |-> "List of acceptable encodings. See HTTP compression.",
     kind |-> "Field"],
    [name |-> <<"A", "c", "c", "e", "p", "t", "-", "L", "a", "n", "g", "u", "a", "g", "e">>,
     description |-> "List of acceptable human languages for response. See Content negotiation.",
     kind |-> "Field"],
    [name |-> <<"A", "c", "c", "e", "s", "s", "-", "C", "o", "n", "t", "r", "o", "l", "-", "R", "e", "q", "u", "e", "s", "t", "-", "M", "e", "t", "h", "o", "d">>,
     description |-> "Initiates a request for cross-origin resource sharing with Origin (below).",
     kind |-> "Field"],
    [name |-> <<"A", "c", "c", "e", "s", "s", "-", "C", "o", "n", "t", "r", "o", "l", "-", "R", "e", "q", "u", "e", "s", "t", "-", "H", "e", "a", "d", "e", "r", "s">>,
     description |-> "Initiates a request for cross-origin resource sharing with Origin (below).",
     kind |-> "Field"],
    [name |-> <<"A", "u", "t", "h", "o", "r", "i", "z", "a", "t", "i", "o", "n">>,
     description |-> "Authentication credentials for HTTP authentication.",
     kind |-> "Field"],
    [name |-> <<"C", "a", "c", "h", "e", "-", "C", "o", "n", "t", "r", "o", "l">>,
     description |-> "Used to specify directives that must be obeyed by all caching mechanisms along the request-response chain.",
     kind |-> "Field"],
    [name |-> <<"C", "o", "n", "n", "e", "c", "t", "i", "o", "n">>,
     description |-> "Control options for the current connection and list of hop-by-hop request fields. Must not be used with HTTP/2.",
     kind |-> "Field"],
    [name |-> <<"C", "o", "n", "t", "e", "n", "t", "-", "E", "n", "c", "o", "d", "i", "n", "g">>,
     description |-> "The type of encoding used on the data. See HTTP compression.",
     kind |-> "Field"],
    [name |-> <<"C", "o", "n", "t", "e", "n", "t", "-", "L", "e", "n", "g", "t", "h">>,
     description |-> "The length of the request body in octets (8-bit bytes).",
     kind |-> "Field"],
    [name |-> <<"C", "o", "n", "t", "e", "n", "t", "-", "M", "D", "5">>,
     description |-> "A Base64-encoded binary MD5 sum of the content of the request body.",
     kind |-> "Field"],
    [name |-> <<"C", "o", "n", "t", "e", "n", "t", "-", "T", "y", "p", "e">>,
     description |-> "The Media type of the body of the request (used with POST and PUT requests).",
     kind |-> "Field"],
    [name |-> <<"C", "o", "o", "k", "i", "e">>,
     description |-> "An HTTP cookie previously sent by the server with Set-Cookie (below).",
     kind |-> "Field"],
    [name |-> <<"D", "a", "t", "e">>,
     description |-> "The date and time at which the message was originated (in \"HTTP-date\" format as defined by RFC 7231 Date/Time Formats).",
     kind |-> "Field"],
    [name |-> <<"E", "x", "p", "e", "c", "t">>,
     description |-> "Indicates that particular server behaviors are required by the client.",
     kind |-> "Field"],
    [name |-> <<"F", "o", "r", "w", "a", "r", "d", "e", "d">>,
     description |-> "Disclose original information of a client connecting to a web server through an HTTP proxy.",
     kind |-> "Field"],
    [name |-> <<"F", "r", "o", "m">>,
     description |-> "The email address of the user making the request.",
     kind |-> "Field"],
    [name |-> <<"H", "o", "s", "t">>,
     description |-> "The domain name of the server (for virtual hosting), and the TCP port number on which the server is listening. The port number may be omitted if the port is the standard port for the service requested. Mandatory since HTTP/1.1. If the request is generated directly in HTTP/2, it should not be used.",
     kind |-> "Field"],
    [name |-> <<"H", "T", "T", "P", "2", "-", "S", "e", "t", "t", "i", "n", "g", "s">>,
     description |-> "A request that upgrades from HTTP/1.1 to HTTP/2 MUST include exactly one HTTP2-Setting header field. The HTTP2-Settings header field is a connection-specific header field that includes parameters that govern the HTTP/2 connection, provided in anticipation of the server accepting the request to upgrade.",
     kind |-> "Field"],
    [name |-> <<"I", "f", "-", "M", "a", "t", "c", "h">>,
     description |-> "Only perform the action if the client supplied entity matches the same entity on the server. This is mainly for methods like PUT to only update a resource if it has not been modified since the user last updated it.",
     kind |-> "Field"],
    [name |-> <<"I", "f", "-", "M", "o", "d", "i", "f", "i", "e", "d", "-", "S", "i", "n", "c", "e">>,
     description |-> "Allows a 304 Not Modified to be returned if content is unchanged.",
     kind |-> "Field"],
    [name |-> <<"I", "f", "-", "N", "o", "n", "e", "-", "M", "a", "t", "c", "h">>,
     description |-> "Allows a 304 Not Modified to be returned if content is unchanged, see HTTP ETag.",
     kind |-> "Field"],
    [name |-> <<"I", "f", "-", "R", "a", "n", "g", "e">>,
     description |-> "If the entity is unchanged, send me the part(s) that I am missing; otherwise, send me the entire new entity.",
     kind |-> "Field"],
    [name |-> <<"I", "f", "-", "U", "n", "m", "o", "d", "i", "f", "i", "e", "d", "-", "S", "i", "n", "c", "e">>,
     description |-> "Only send the response if the entity has not been modified since a specific time.",
     kind |-> "Field"],
    [name |-> <<"M", "a", "x", "-", "F", "o", "r", "w", "a", "r", "d", "s">>,
     description |-> "Limit the number of times the message can be forwarded through proxies or gateways.",
     kind |-> "Field"],
    [name |-> <<"O", "r", "i", "g", "i", "n">>,
     description |-> "Initiates a request for cross-origin resource sharing (asks server for Access-Control-* response fields).",
     kind |-> "Field"],
    [name |-> <<"P", "r", "a", "g", "m", "a">>,
     description |-> "Implementation-specific fields that may have various effects anywhere along the request-response chain.",
     kind |-> "Field"],
    [name |-> <<"P", "r", "o", "x", "y", "-", "A", "u", "t", "h", "o", "r", "i", "z", "a", "t", "i", "o", "n">>,
     description |-> "Authorization credentials for connecting to a proxy.",
     kind |-> "Field"],
    [name |-> <<"R", "a", "n", "g", "e">>,
     description |-> "Request only part of an entity. Bytes are numbered from 0. See Byte serving.",
     kind |-> "Field"],
    [name |-> <<"R", "e", "f", "e", "r", "e", "r">>,
     description |-> "This is the address of the previous web page from which a link to the currently requested page was followed. (The word \"referrer\" has been misspelled in the RFC as well as in most implementations to the point that it has become standard usage and is considered correct terminology)",
     kind |-> "Field"],
    [name |-> <<"T", "E">>,
     description |-> "The transfer encodings the user agent is willing to accept: the same values as for the response header field Transfer-Encoding can be used, plus the \"trailers\" value (related to the \"chunked\" transfer method) to notify the server it expects to receive additional fields in the trailer after the last, zero-sized, chunk. Only trailers is supported in HTTP/2.",
     kind |-> "Field"],
    [name |-> <<"T", "r", "a", "i", "l", "e", "r">>,
     description |-> "The Trailer general field value indicates that the given set of header fields is present in the trailer of a message encoded with chunked transfer coding.",
     kind |-> "Field"],
    [name |-> <<"T", "r", "a", "n", "s", "f", "e", "r", "-", "E", "n", "c", "o", "d", "i", "n", "g">>,
     description |-> "The form of encoding used to safely transfer the entity to the user. Currently defined methods are: chunked, compress, deflate, gzip, identity. Must not be used with HTTP/2",
     kind |-> "Field"],
    [name |-> <<"U", "s", "e", "r", "-", "A", "g", "e", "n", "t">>,
     description |-> "The user agent string of the user agent.",
     kind |-> "Field"],
    [name |-> <<"U", "p", "g", "r", "a", "d", "e">>,
     description |-> "Ask the server to upgrade to another protocol. Must not be used in HTTP/2.",
     kind |-> "Field"],
    [name |-> <<"V", "i", "a">>,
     description |-> "Informs the server of proxies through which the request was sent.",
     kind |-> "Field"],
    [name |-> <<"W", "a", "r", "n", "i", "n", "g">>,
     description |-> "A general warning about possible problems with the entity body.",
     kind |-> "Field"],
    [name |-> <<"U", "p", "g", "r", "a", "d", "e", "-", "I", "n", "s", "e", "c", "u", "r", "e", "-", "R", "e", "q", "u", "e", "s", "t", "s">>,
     description |-> "Tells a server which (presumably in the middle of a HTTP -> HTTPS migration) hosts mixed content that the client would prefer redirection to HTTPS and can handle Content-Security-Policy: upgrade-insecure-requests Must not be used with HTTP/2",
     kind |-> "Field"],
    [name |-> <<"X", "-", "R", "e", "q", "u", "e", "s", "t", "e", "d", "-", "W", "i", "t", "h">>,
     description |-> "Mainly used to identify Ajax requests (most JavaScript frameworks send this field with value of XMLHttpRequest); also identifies Android apps using WebView",
     kind |-> "Field"],
    [name |-> <<"D", "N", "T">>,
     description |-> "Requests a web application to disable their tracking of a user. This is Mozilla's version of the X-Do-Not-Track header field (since Firefox 4.0 Beta 11). Safari and IE9 also have support for this field. On March 7, 2011, a draft proposal was submitted to IETF. The W3C Tracking Protection Working Group is producing a specification.",
     kind |-> "Field"],
    [name |-> <<"X", "-", "F", "o", "r", "w", "a", "r", "d", "e", "d", "-", "F", "o", "r">>,
     description |-> "A de facto standard for identifying the originating IP address of a client connecting to a web server through an HTTP proxy or load balancer. Superseded by Forwarded header.",
     kind |-> "Field"],
    [name |-> <<"X", "-", "F", "o", "r", "w", "a", "r", "d", "e", "d", "-", "H", "o", "s", "t">>,
     description |-> "A de facto standard for identifying the original host requested by the client in the Host HTTP request header, since the host name and/or port of the reverse proxy (load balancer) may differ from the origin server handling the request. Superseded by Forwarded header.",
     kind |-> "Field"],
    [name |-> <<"X", "-", "F", "o", "r", "w", "a", "r", "d", "e", "d", "-", "P", "r", "o", "t", "o">>,
     description |-> "A de facto standard for identifying the originating protocol of an HTTP request, since a reverse proxy (or a load balancer) may communicate with a web server using HTTP even if the request to the reverse proxy is HTTPS. An alternative form of the header (X-ProxyUser-Ip) is used by Google clients talking to Google servers. Superseded by Forwarded header.",
     kind |-> "Field"],
    [name |-> <<"F", "r", "o", "n", "t", "-", "E", "n", "d", "-", "H", "t", "t", "p", "s">>,
     description |-> "Non-standard header field used by Microsoft applications and load-balancers",
     kind |-> "Field"],
    [name |-> <<"X", "-", "H", "t", "t", "p", "-", "M", "e", "t", "h", "o", "d", "-", "O", "v", "e", "r", "r", "i", "d", "e">>,
     description |-> "Requests a web application to override the method specified in the request (typically POST) with the method given in the header field (typically PUT or DELETE). This can be used when a user agent or firewall prevents PUT or DELETE methods from being sent directly (note that this is either a bug in the software component, which ought to be fixed, or an intentional configuration, in which case bypassing it may be the wrong thing to do).",
     kind |-> "Field"],
    [name |-> <<"X", "-", "A", "T", "T", "-", "D", "e", "v", "i", "c", "e", "I", "d">>,
     description |-> "Allows easier parsing of the MakeModel/Firmware that is usually found in the User-Agent String of AT&T Devices",
     kind |-> "Field"],
    [name |-> <<"X", "-", "W", "a", "p", "-", "P", "r", "o", "f", "i", "l", "e">>,
     description |-> "Links to an XML file on the Internet with a full description and details about the device currently connecting. In the example to the right is an XML file for an AT&T Samsung Galaxy S2.",
     kind |-> "Field"],
    [name |-> <<"P", "r", "o", "x", "y", "-", "C", "o", "n", "n", "e", "c", "t", "i", "o", "n">>,
     description |-> "Implemented as a misunderstanding of the HTTP specifications. Common because of mistakes in implementations of early HTTP versions. Has exactly the same functionality as standard Connection field. Must not be used with HTTP/2.",
     kind |-> "Field"],
    [name |-> <<"X", "-", "U", "I", "D", "H">>,
     description |-> "Server-side deep packet insertion of a unique ID identifying customers of Verizon Wireless; also known as \"perma-cookie\" or \"supercookie\"",
     kind |-> "Field"],
    [name |-> <<"X", "-", "C", "s", "r", "f", "-", "T", "o", "k", "e", "n">>,
     description |-> "Used to prevent cross-site request forgery. Alternative header names are: X-CSRFToken and X-XSRF-TOKEN",
     kind |-> "Field"],
    [name |-> <<"X", "-", "R", "e", "q", "u", "e", "s", "t", "-", "I", "D">>,
     description |-> "Correlates HTTP requests between a client and server.",
     kind |-> "Field"],
    [name |-> <<"X", "-", "C", "o", "r", "r", "e", "l", "a", "t", "i", "o", "n", "-", "I", "D">>,
     description |-> "Correlates HTTP requests between a client and server.",
     kind |-> "Field"],
    [name |-> <<"S", "a", "v", "e", "-", "D", "a", "t", "a">>,
     description |-> "The Save-Data client hint request header available in Chrome, Opera, and Yandex browsers lets developers deliver lighter, faster applications to users who opt-in to data saving mode in their browser.",
     kind |-> "Field"]
  >>

\* part_000:492-522, the fields pushed for an MQTT request.
MqttHeaderTable ==
  <<
    [name |-> <<"u", "s", "e", "r", "n", "a", "m", "e">>,
     description |-> "the username required by your broker",
     kind |-> "Field"],
    [name |-> <<"p", "a", "s", "s", "w", "o", "r", "d">>,
     description |-> "the password required by your broker",
     kind |-> "Field"],
    [name |-> <<"c", "l", "e", "a", "n">>,
     description |-> "true, set to false to receive QoS 1 and 2 messages while offline",
     kind |-> "Field"],
    [name |-> <<"k", "e", "e", "p", "a", "l", "i", "v", "e">>,
     description |-> "10 seconds, set to 0 to disable",
     kind |-> "Field"],
    [name |-> <<"Q", "o", "S">>,
     description |-> "the QoS used for subscribe or publish",
     kind |-> "Field"],
    [name |-> <<"r", "e", "t", "a", "i", "n">>,
     description |-> "the retain flat used for publish",
     kind |-> "Field"],
    [name |-> <<"s", "u", "b", "s", "c", "r", "i", "b", "e">>,
     description |-> "topics to subscribe to",
     kind |-> "Field"],
    [name |-> <<"p", "u", "b", "l", "i", "s", "h">>,
     description |-> "topics to publish to",
     kind |-> "Field"],
    [name |-> <<"t", "o", "p", "i", "c">>,
     description |-> "topic to subscribe and publish to",
     kind |-> "Field"]
  >>

\* part_000:526-528, the field pushed for an EventSource request.
EventSourceHeaderTable ==
  <<
    [name |-> <<"E", "v", "e", "n", "t">>,
     description |-> "Server Sent Events to add listener",
     kind |-> "Field"]
  >>

\* part_000:532-538, the field pushed for a gRPC request.
GrpcHeaderTable ==
  <<
    [name |-> <<"C", "h", "a", "n", "n", "e", "l", "C", "r", "e", "d", "e", "n", "t", "i", "a", "l", "s">>,
     description |-> "Channel credentials, which are attached to a Channel, such as SSL credentials.",
     kind |-> "Field"]
  >>

\* part_000:582-613, the literal returned by getAuthorization.
AuthorizationTable ==
  <<
    [name |-> <<"B", "a", "s", "i", "c">>,
     description |-> "Basic Authentication",
     kind |-> "Value"],
    [name |-> <<"D", "i", "g", "e", "s", "t">>,
     description |-> "Digest Authentication",
     kind |-> "Value"],
    [name |-> <<"A", "W", "S">>,
     description |-> "AWS Signnature v4",
     kind |-> "Value"],
    [name |-> <<"O", "A", "u", "t", "h", "2">>,
     description |-> "OAuth2",
     kind |-> "Value"],
    [name |-> <<"O", "p", "e", "n", "I", "d">>,
     description |-> "OpenId",
     kind |-> "Value"],
    [name |-> <<"B", "e", "a", "r", "e", "r">>,
     description |-> "Bearer Authentication",
     kind |-> "Value"]
  >>

----------------------------------------------------------------------------
\* What the collaborators hand over.

\* documentStore.getHttpFile resolved with undefined; find() returned undefined.
NoHttpFile == [undefined |-> TRUE]
NoHttpRegion == [undefined |-> TRUE]

\* httpyac.HttpSymbolKind, the values the parser tags a region's children with.
HttpSymbolKinds == {"requestLine", "requestHeader", "metaData"}

\* The protocols of a region's request; "none" stands for a region without
\* request.  WebSocket is a request none of the four predicates accepts.
NoRequest == "none"
Protocols == {"Http", "Mqtt", "EventSource", "Grpc", "WebSocket"}

\* httpyac.utils.isHttpRequest and its siblings, on the protocol of a request.
isHttpRequest(request) == request = "Http"
isMQTTRequest(request) == request = "Mqtt"
isEventSourceRequest(request) == request = "EventSource"
isGrpcRequest(request) == request = "Grpc"

\* A region of two lines starting at `start`: its request line (or whatever
\* the parser found there, "none": no child symbol) and the line after it.
HttpRegion(start, request, kind, name) ==
  [symbol |-> [startLine |-> start,
               endLine |-> start + 1,
               children |-> IF kind = "none" THEN <<>>
                            ELSE <<[startLine |-> start, kind |-> kind]>>],
   request |-> request,
   metaData |-> [name |-> name]]

----------------------------------------------------------------------------
\* The six candidate streams.

\* The method filter with its empty-line test inverted.
getRequstMethodCompletionItems_emptyLineInverted(textLine) ==
  LET Keep(obj) == Len(textLine) # 0 /\ startsWith(toLowerCase(obj.name), textLine)
  IN  SelectSeq(MethodTable, Keep)


getRequstMethodCompletionItems(textLine) ==
  LET Keep(obj) == Len(textLine) = 0 \/ startsWith(toLowerCase(obj.name), textLine)
  IN  SelectSeq(MethodTable, Keep)

\* The table the if/else-if chain of getRequestHeaders selects.
requestHeaderTable(request) ==
  IF isHttpRequest(request) THEN HttpHeaderTable
  ELSE IF isMQTTRequest(request) THEN MqttHeaderTable
  ELSE IF isEventSourceRequest(request) THEN EventSourceHeaderTable
  ELSE IF isGrpcRequest(request) THEN GrpcHeaderTable
  ELSE <<>>

\* The header filter comparing against the typed text as typed, the way the
\* method filter does.
getRequestHeaders_textAsTyped(textLine, inRequestLine, httpRegion) ==
  IF inRequestLine /\ httpRegion # NoHttpRegion /\ httpRegion.request # NoRequest
  THEN LET Keep(obj) ==
             \/ Len(textLine) = 0
             \/ startsWith(toLowerCase(obj.name), trim(textLine))
       IN  SelectSeq(requestHeaderTable(httpRegion.request), Keep)
  ELSE <<>>


getRequestHeaders(textLine, inRequestLine, httpRegion) ==
  IF inRequestLine /\ httpRegion # NoHttpRegion /\ httpRegion.request # NoRequest
  THEN LET Keep(obj) ==
             \/ Len(textLine) = 0
             \/ startsWith(toLowerCase(obj.name), toLowerCase(trim(textLine)))
       IN  SelectSeq(requestHeaderTable(httpRegion.request), Keep)
  ELSE <<>>

\* isInRequestLine looking at the cursor line instead of the line before it.
isInRequestLine_cursorLine(httpRegion, line) ==
  LET children == httpRegion.symbol.children
      preLine == findIndex({i \in 1..Len(children) : children[i].startLine = line})
  IN  /\ preLine # 0
      /\ children[preLine].kind \in {"requestLine", "requestHeader"}


isInRequestLine(httpRegion, line) ==
  LET children == httpRegion.symbol.children
      preLine == findIndex({i \in 1..Len(children) : children[i].startLine = line - 1})
  IN  /\ preLine # 0
      /\ children[preLine].kind \in {"requestLine", "requestHeader"}

\* getMimetypes without the push of lines 570-574.
getMimetypes_mappingOnly(line, inRequestLine) ==
  IF inRequestLine /\ includes(toLowerCase(line), <<"c", "o", "n", "t", "e", "n", "t", "-", "t", "y", "p", "e">>)
  THEN [i \in 1..Len(types) |->
          [name |-> types[i].value, description |-> types[i].key, kind |-> "Value"]]
  ELSE <<>>


getMimetypes(line, inRequestLine) ==
  IF inRequestLine /\ includes(toLowerCase(line), <<"c", "o", "n", "t", "e", "n", "t", "-", "t", "y", "p", "e">>)
  THEN [i \in 1..Len(types) |->
          [name |-> types[i].value, description |-> types[i].key, kind |-> "Value"]]
       \o <<[name |-> <<"a", "p", "p", "l", "i", "c", "a", "t", "i", "o", "n", "/", "x", "-", "w", "w", "w", "-", "f", "o", "r", "m", "-", "u", "r", "l", "e", "n", "c", "o", "d", "e", "d">>,
             description |-> "application/x-www-form-urlencoded",
             kind |-> "Value"]>>
  ELSE <<>>

\* getAuthorization without the test of the header context.
getAuthorization_anyContext(line, inRequestLine) ==
  IF includes(toLowerCase(line), <<"a", "u", "t", "h", "o", "r", "i", "z", "a", "t", "i", "o", "n">>)
  THEN AuthorizationTable
  ELSE <<>>


getAuthorization(line, inRequestLine) ==
  IF inRequestLine /\ includes(toLowerCase(line), <<"a", "u", "t", "h", "o", "r", "i", "z", "a", "t", "i", "o", "n">>)
  THEN AuthorizationTable
  ELSE <<>>

\* The loop body of getMetaData leaving `text` the full name.
metaDataItems_fullText(obj, line) ==
  LET item == [name |-> <<"@">> \o obj.name,
               description |-> obj.description,
               kind |-> "Field",
               text |-> <<"@">> \o obj.name]
      full(i) == <<"@">> \o obj.name \o <<" ">> \o obj.completions[i]
  IN  IF Len(line) = 0 \/ startsWith(item.name, line)
      THEN IF "completions" \in DOMAIN obj
           THEN [i \in 1..Len(obj.completions) |->
                   [item EXCEPT !.name = full(i), !.text = full(i)]]
           ELSE <<item>>
      ELSE <<>>

\* The loop body of getMetaData pushing the bare directive before its
\* sub-completions.
metaDataItems_bareFirst(obj, line) ==
  LET item == [name |-> <<"@">> \o obj.name,
               description |-> obj.description,
               kind |-> "Field",
               text |-> <<"@">> \o obj.name]
      full(i) == <<"@">> \o obj.name \o <<" ">> \o obj.completions[i]
  IN  IF Len(line) = 0 \/ startsWith(item.name, line)
      THEN <<[item EXCEPT !.text = slice(item.name, Len(line))]>>
           \o (IF "completions" \in DOMAIN obj
               THEN [i \in 1..Len(obj.completions) |->
                       [item EXCEPT !.name = full(i),
                                    !.text = slice(full(i), Len(line))]]
               ELSE <<>>)
      ELSE <<>>

\* One pass of the loop of getMetaData over a directive: what it pushes.
metaDataItems(obj, line) ==
  LET item == [name |-> <<"@">> \o obj.name,
               description |-> obj.description,
               kind |-> "Field",
               text |-> <<"@">> \o obj.name]
      full(i) == <<"@">> \o obj.name \o <<" ">> \o obj.completions[i]
  IN  IF Len(line) = 0 \/ startsWith(item.name, line)
      THEN IF "completions" \in DOMAIN obj
           THEN [i \in 1..Len(obj.completions) |->
                   [item EXCEPT !.name = full(i),
                                !.text = slice(full(i), Len(line))]]
           ELSE <<[item EXCEPT !.text = slice(item.name, Len(line))]>>
      ELSE <<>>

\* getMetaData without the test of the header context.
getMetaData_anyContext(textLine, inRequestLine) ==
  IF startsWith(trim(textLine), <<"#">>)
  THEN LET line == trim(slice(trim(textLine), 1))
       IN  flatten([i \in 1..Len(knownMetaData) |-> metaDataItems(knownMetaData[i], line)])
  ELSE <<>>


getMetaData(textLine, inRequestLine) ==
  IF startsWith(trim(textLine), <<"#">>) /\ ~inRequestLine
  THEN LET line == trim(slice(trim(textLine), 1))
       IN  flatten([i \in 1..Len(knownMetaData) |-> metaDataItems(knownMetaData[i], line)])
  ELSE <<>>

\* getRefName keeping the first region of every name only.
getRefName_firstOfEachName(line, httpFile) ==
  IF /\ httpFile # NoHttpFile
     /\ startsWith(line, <<"#">>)
     /\ includes(toLowerCase(line), <<"r", "e", "f">>)
  THEN LET regions == httpFile.httpRegions
           first == {i \in 1..Len(regions) :
                       /\ regions[i].metaData.name # <<>>
                       /\ \A j \in 1..(i - 1) : regions[j].metaData.name # regions[i].metaData.name}
           Named(obj) == \E i \in first : regions[i] = obj
           named == SelectSeq(regions, Named)
       IN  [i \in 1..Cardinality(first) |->
              [name |-> named[i].metaData.name,
               description |-> "httpRegion name",
               kind |-> "Reference"]]
  ELSE <<>>


\* getRefName looking for "ref" in the line as typed.
getRefName_caseSensitive(line, httpFile) ==
  IF /\ httpFile # NoHttpFile
     /\ startsWith(line, <<"#">>)
     /\ includes(line, <<"r", "e", "f">>)
  THEN LET Named(obj) == obj.metaData.name # <<>>
           named == SelectSeq(httpFile.httpRegions, Named)
       IN  [i \in 1..Len(named) |->
              [name |-> named[i].metaData.name,
               description |-> "httpRegion name",
               kind |-> "Reference"]]
  ELSE <<>>


getRefName(line, httpFile) ==
  IF /\ httpFile # NoHttpFile
     /\ startsWith(line, <<"#">>)
     /\ includes(toLowerCase(line), <<"r", "e", "f">>)
  THEN LET Named(obj) == obj.metaData.name # <<>>
           named == SelectSeq(httpFile.httpRegions, Named)
       IN  [i \in 1..Len(named) |->
              [name |-> named[i].metaData.name,
               description |-> "httpRegion name",
               kind |-> "Reference"]]
  ELSE <<>>

----------------------------------------------------------------------------
\* provideCompletionItems, cut at its two awaits.

\* Lines 70-72: the first region whose symbol encloses the cursor line.
findHttpRegion(httpFile, line) ==
  IF httpFile = NoHttpFile THEN NoHttpRegion
  ELSE LET regions == httpFile.httpRegions
           i == findIndex({k \in 1..Len(regions) :
                             /\ regions[k].symbol.startLine <= line
                             /\ line <= regions[k].symbol.endLine})
       IN  IF i = 0 THEN NoHttpRegion ELSE regions[i]

\* Line 73 taking a missing region for header context.
inRequestLineOf_missingRegion(httpFile, line) ==
  LET httpRegion == findHttpRegion(httpFile, line)
  IN  httpRegion = NoHttpRegion \/ isInRequestLine(httpRegion, line)

\* Line 73.
inRequestLineOf(httpFile, line) ==
  LET httpRegion == findHttpRegion(httpFile, line)
  IN  httpRegion # NoHttpRegion /\ isInRequestLine(httpRegion, line)

\* The pushes of lines 77 and 79 in the other order.
pushedBeforeRefName_headersFirst(textLine, line, httpFile) ==
  LET httpRegion == findHttpRegion(httpFile, line)
      inRequestLine == inRequestLineOf(httpFile, line)
  IN  getRequestHeaders(textLine, inRequestLine, httpRegion)
      \o getRequstMethodCompletionItems(textLine)
      \o getMimetypes(textLine, inRequestLine)
      \o getAuthorization(textLine, inRequestLine)
      \o getMetaData(textLine, inRequestLine)

\* Lines 75-83: the array after the five synchronous pushes.
pushedBeforeRefName(textLine, line, httpFile) ==
  LET httpRegion == findHttpRegion(httpFile, line)
      inRequestLine == inRequestLineOf(httpFile, line)
  IN  getRequstMethodCompletionItems(textLine)
      \o getRequestHeaders(textLine, inRequestLine, httpRegion)
      \o getMimetypes(textLine, inRequestLine)
      \o getAuthorization(textLine, inRequestLine)
      \o getMetaData(textLine, inRequestLine)

\* Lines 86-92: the vscode.CompletionItem made of a candidate.
toCompletionItem(obj) ==
  [label |-> obj.name,
   kind |-> obj.kind,
   detail |-> obj.description,
   documentation |-> obj.description,
   insertText |-> IF "text" \in DOMAIN obj /\ obj.text # <<>> THEN obj.text ELSE obj.name]

\* A slot no invocation occupies.
IdleRequest ==
  [pc |-> "idle", text |-> <<>>, textLine |-> <<>>, line |-> 0, cancelled |-> "no",
   httpFile |-> NoHttpFile, result |-> <<>>, refNames |-> <<>>, items |-> <<>>]

\* Lines 63-68: the host calls with the text before the cursor and the cursor
\* line; the line is trimmed and the wait for the document model begins.
Call(r, text, line) ==
  /\ req[r].pc = "idle"
  /\ req' = [req EXCEPT ![r] = [IdleRequest EXCEPT !.pc = "getHttpFile",
                                                   !.text = text,
                                                   !.textLine = trim(text),
                                                   !.line = line]]
  /\ UNCHANGED <<types, knownMetaData, handlerVars, environmentVars, storeVars>>

\* Lines 68-84 with `result` an array the invocations share instead of the
\* local of line 75: what the other invocations pushed is still in it.
GetHttpFileResolved_sharedResult(r, httpFile) ==
  /\ req[r].pc = "getHttpFile"
  /\ LET shared == flatten([o \in DOMAIN req |-> IF o = r THEN <<>> ELSE req[o].result])
     IN  req' = [req EXCEPT ![r].pc = "getRefName",
                           ![r].httpFile = httpFile,
                           ![r].result = shared \o pushedBeforeRefName(req[r].textLine, req[r].line, httpFile),
                           ![r].refNames = getRefName(req[r].textLine, httpFile)]
  /\ UNCHANGED <<types, knownMetaData, handlerVars, environmentVars, storeVars>>

\* Lines 68-84 with getMimetypes pushing its synthetic candidate into the
\* extension mapping itself instead of the array built from its entries.
GetHttpFileResolved_typesPushed(r, httpFile) ==
  /\ req[r].pc = "getHttpFile"
  /\ req' = [req EXCEPT ![r].pc = "getRefName",
                        ![r].httpFile = httpFile,
                        ![r].result = pushedBeforeRefName(req[r].textLine, req[r].line, httpFile),
                        ![r].refNames = getRefName(req[r].textLine, httpFile)]
  /\ types' = IF getMimetypes(req[r].textLine, inRequestLineOf(httpFile, req[r].line)) # <<>>
              THEN types \o <<[key |-> "application/x-www-form-urlencoded",
                               value |-> <<"a", "p", "p", "l", "i", "c", "a", "t", "i", "o", "n", "/", "x", "-", "w", "w", "w", "-", "f", "o", "r", "m", "-", "u", "r", "l", "e", "n", "c", "o", "d", "e", "d">>]>>
              ELSE types
  /\ UNCHANGED <<knownMetaData, handlerVars, environmentVars, storeVars>>

\* Lines 68-84: getHttpFile resolved with httpFile (NoHttpFile: undefined); the
\* five synchronous streams are pushed, getRefName is called and awaited.
GetHttpFileResolved(r, httpFile) ==
  /\ req[r].pc = "getHttpFile"
  /\ req' = [req EXCEPT ![r].pc = "getRefName",
                        ![r].httpFile = httpFile,
                        ![r].result = pushedBeforeRefName(req[r].textLine, req[r].line, httpFile),
                        ![r].refNames = getRefName(req[r].textLine, httpFile)]
  /\ UNCHANGED <<types, knownMetaData, handlerVars, environmentVars, storeVars>>

\* Line 68: getHttpFile rejected; nothing catches it, the call rejects.
GetHttpFileRejected(r) ==
  /\ req[r].pc = "getHttpFile"
  /\ req' = [req EXCEPT ![r].pc = "rejected"]
  /\ UNCHANGED <<types, knownMetaData, handlerVars, environmentVars, storeVars>>

\* Lines 84-92: the references are pushed and the candidates become items.
GetRefNameResolved(r) ==
  /\ req[r].pc = "getRefName"
  /\ LET result == req[r].result \o req[r].refNames
     IN  req' = [req EXCEPT ![r].pc = "resolved",
                           ![r].result = result,
                           ![r].items = [i \in 1..Len(result) |-> toCompletionItem(result[i])]]
  /\ UNCHANGED <<types, knownMetaData, handlerVars, environmentVars, storeVars>>

\* Lines 63-66: the host cancels the token of a request in flight; the
\* method declares no token parameter and reads none.
CancellationRequested(r) ==
  /\ req[r].pc \in {"getHttpFile", "getRefName"}
  /\ req[r].cancelled = "no"
  /\ req' = [req EXCEPT ![r].cancelled = req[r].pc]
  /\ UNCHANGED <<types, knownMetaData, handlerVars, environmentVars, storeVars>>

\* The host has taken the outcome; the slot is free for the next request.
Settled(r) ==
  /\ req[r].pc \in {"resolved", "rejected"}
  /\ req' = [req EXCEPT ![r] = IdleRequest]
  /\ UNCHANGED <<types, knownMetaData, handlerVars, environmentVars, storeVars>>

----------------------------------------------------------------------------
\* errorHandler: the wrapper a decorated method is replaced by, and the
\* handler of what the method throws or rejects with.

\* No error caught so far.
NoError == [kind |-> "none", stack |-> "", text |-> ""]

\* What a method can throw or reject with: an Error with and without a stack
\* (text: its name and message), a string (text: itself), a value
\* JSON.stringify renders (text: the rendering), and one it throws a TypeError
\* on (a BigInt, an object with a cycle).
Errors ==
  {[kind |-> "Error", stack |-> "Error: failed at method", text |-> "Error - failed"],
   [kind |-> "Error", stack |-> "", text |-> "Error - failed"],
   [kind |-> "string", stack |-> "", text |-> "failed"],
   [kind |-> "object", stack |-> "", text |-> "{}"],
   [kind |-> "bigint", stack |-> "", text |-> ""]}

\* Lines 33-39: the argument of window.showErrorMessage, where there is one.
errorMessage(err) ==
  IF err.kind = "Error"
  THEN IF err.stack # "" THEN err.stack ELSE err.text
  ELSE err.text

\* A slot no invocation of the wrapper occupies.
IdleWrapped ==
  [pc |-> "idle", method |-> "none", err |-> NoError, returned |-> "nothing",
   promise |-> "none", value |-> "nothing", logged |-> 0, popup |-> FALSE,
   shown |-> <<>>, handler |-> "none"]

\* Lines 29-41, up to the await: the error is logged, the setting is read and,
\* if it is on, the message is built and handed to window.showErrorMessage;
\* JSON.stringify throwing makes the handler's own promise reject.
handleError(w, err) ==
  LET logged == [w EXCEPT !.err = err,
                          !.logged = @ + 1,
                          !.popup = showNotificationPopup]
  IN  IF ~showNotificationPopup
      THEN [logged EXCEPT !.handler = "finished"]
      ELSE IF err.kind = "bigint"
           THEN [logged EXCEPT !.handler = "rejected"]
           ELSE [logged EXCEPT !.handler = "showErrorMessage",
                               !.shown = Append(@, errorMessage(err))]

\* Lines 15-26: the wrapper applies the method. A result that is no promise
\* is returned; a promise is returned with the handler chained by catch; what
\* the method throws is handed to handleError, which is not awaited, and
\* undefined is returned.
WrapperCalled(c, how, err) ==
  /\ wrapped[c].pc = "idle"
  /\ wrapped' = [wrapped EXCEPT ![c] =
       CASE how = "returns" ->
              [IdleWrapped EXCEPT !.pc = "done", !.method = how, !.returned = "result"]
         [] how = "throws" ->
              LET h == handleError([IdleWrapped EXCEPT !.method = how], err)
              IN  [h EXCEPT !.returned = "undefined",
                            !.pc = IF h.handler = "showErrorMessage" THEN "handleError" ELSE "done"]
         [] how = "promise" ->
              [IdleWrapped EXCEPT !.pc = "method", !.method = how,
                                  !.returned = "promise", !.promise = "pending"]]
  /\ UNCHANGED <<types, knownMetaData, req, showNotificationPopup, environmentVars, storeVars>>

\* Line 19: the method's promise fulfils; so does the promise catch returned.
MethodResolved(c) ==
  /\ wrapped[c].pc = "method"
  /\ wrapped' = [wrapped EXCEPT ![c].pc = "done",
                                ![c].promise = "fulfilled",
                                ![c].value = "result"]
  /\ UNCHANGED <<types, knownMetaData, req, showNotificationPopup, environmentVars, storeVars>>

\* Line 19: the method's promise rejects; the callback of catch returns the
\* promise of handleError, which the returned promise follows.
MethodRejected(c, err) ==
  /\ wrapped[c].pc = "method"
  /\ LET h == handleError(wrapped[c], err)
     IN  wrapped' = [wrapped EXCEPT ![c] =
           CASE h.handler = "finished" ->
                  [h EXCEPT !.pc = "done", !.promise = "fulfilled", !.value = "undefined"]
             [] h.handler = "rejected" ->
                  [h EXCEPT !.pc = "done", !.promise = "rejected", !.value = "TypeError"]
             [] h.handler = "showErrorMessage" ->
                  [h EXCEPT !.pc = "handleError"]]
  /\ UNCHANGED <<types, knownMetaData, req, showNotificationPopup, environmentVars, storeVars>>

\* Lines 34-38: window.showErrorMessage resolves (the notification is closed);
\* handleError returns, and a promise that followed it fulfils with undefined.
MessageDismissed(c) ==
  /\ wrapped[c].pc = "handleError"
  /\ wrapped' = [wrapped EXCEPT ![c].pc = "done",
                                ![c].handler = "finished",
                                ![c].promise = IF @ = "pending" THEN "fulfilled" ELSE @,
                                ![c].value = IF wrapped[c].promise = "pending" THEN "undefined" ELSE @]
  /\ UNCHANGED <<types, knownMetaData, req, showNotificationPopup, environmentVars, storeVars>>

\* Line 32 reads the setting anew for every error: the user may change it.
ConfigChanged ==
  /\ showNotificationPopup' = ~showNotificationPopup
  /\ UNCHANGED <<types, knownMetaData, req, wrapped, environmentVars, storeVars>>

\* The caller has taken the outcome; the slot is free for the next call.
WrapperSettled(c) ==
  /\ wrapped[c].pc = "done"
  /\ wrapped' = [wrapped EXCEPT ![c] = IdleWrapped]
  /\ UNCHANGED <<types, knownMetaData, req, showNotificationPopup, environmentVars, storeVars>>

----------------------------------------------------------------------------
\* EnvironmentController.initEnvironmentProvider: the providers the controller
\* registers with httpyac's environmentStore.

\* this.environmentProviders before the first call; afterwards it is an array,
\* the record of its elements.
NoProviders == [undefined |-> TRUE]

\* Array.prototype.indexOf: the first position (from 0) of obj in arr, or -1.
indexOf(arr, obj) ==
  findIndex({i \in 1..Len(arr) : arr[i] = obj}) - 1

\* Lines 45-63: the providers one call creates, in the order it pushes them.
\* configs.environmentenvironments is set or not, configs.dotenvDirname is
\* "" (not set), an absolute or a relative path. Objects are told apart by
\* the call that created them and their place in it.
createdProviders(call, configs, workspaceFolders) ==
  LET json == IF configs.environmentenvironments
              THEN <<[type |-> "JsonEnvProvider", dir |-> "environmentenvironments"]>>
              ELSE <<>>
      absolute == IF configs.dotenvDirname = "absolute"
                  THEN <<[type |-> "DotenvProvider", dir |-> "dotenvDirname"]>>
                  ELSE <<>>
      folders == flatten([w \in 1..workspaceFolders |->
                   <<[type |-> "DotenvProvider", dir |-> "workspace"]>>
                     \o (IF configs.dotenvDirname = "relative"
                         THEN <<[type |-> "DotenvProvider", dir |-> "workspace/dotenvDirname"]>>
                         ELSE <<>>)])
      all == json \o absolute \o folders
  IN  [i \in 1..Len(all) |->
         [by |-> "controller", call |-> call, index |-> i,
          type |-> all[i].type, dir |-> all[i].dir]]

\* initEnvironmentProvider leaving the providers of the last call registered.
initEnvironmentProvider_keepsAll(configs, workspaceFolders) ==
  LET registered == environmentStore.environmentProviders
      created == createdProviders(environmentController.calls + 1, configs, workspaceFolders)
  IN  /\ environmentController' = [environmentProviders |-> [elements |-> created],
                                   calls |-> environmentController.calls + 1]
      /\ environmentStore' = [environmentProviders |-> registered \o created,
                              refreshed |-> environmentStore.refreshed + 1]
      /\ UNCHANGED <<types, knownMetaData, req, handlerVars, storeVars>>

\* Lines 38-66: the providers of the last call are taken out of the store, the
\* new ones are created and pushed, the store is refreshed.
initEnvironmentProvider(configs, workspaceFolders) ==
  LET mine == environmentController.environmentProviders
      registered == environmentStore.environmentProviders
      Other(obj) == indexOf(mine.elements, obj) < 0
      kept == IF mine # NoProviders THEN SelectSeq(registered, Other) ELSE registered
      created == createdProviders(environmentController.calls + 1, configs, workspaceFolders)
  IN  /\ environmentController' = [environmentProviders |-> [elements |-> created],
                                   calls |-> environmentController.calls + 1]
      /\ environmentStore' = [environmentProviders |-> kept \o created,
                              refreshed |-> environmentStore.refreshed + 1]
      /\ UNCHANGED <<types, knownMetaData, req, handlerVars, storeVars>>

\* Line 41 (otherEnvProvider): a provider somebody else pushes into the store.
OtherProviderRegistered ==
  LET Foreign(obj) == obj.by = "other"
      n == Len(SelectSeq(environmentStore.environmentProviders, Foreign))
  IN  /\ environmentStore' =
           [environmentStore EXCEPT !.environmentProviders =
              Append(@, [by |-> "other", call |-> 0, index |-> n + 1,
                         type |-> "EnvironmentProvider", dir |-> "other"])]
      /\ UNCHANGED <<types, knownMetaData, req, handlerVars, environmentController, storeVars>>

----------------------------------------------------------------------------
\* StoreController: the environment of a file is picked (toggleEnv, pickEnv)
\* and shown in the status bar (refreshEnvStatusBarItem).

\* The value undefined; an array is the record of its elements.
Undefined == [undefined |-> TRUE]

\* Array.prototype.join.
RECURSIVE join(_, _)
join(arr, separator) ==
  IF Len(arr) = 0 THEN <<>>
  ELSE IF Len(arr) = 1 THEN arr[1]
  ELSE arr[1] \o separator \o join(Tail(arr), separator)

\* Lines 19-22: the two theme colours, and no colour.
statusBarBackground ==
  [error |-> "statusBarItem.errorBackground", warning |-> "statusBarItem.warningBackground"]

\* Lines 105-110.
getEnvironmentTitle(activeEnvironment) ==
  IF activeEnvironment # Undefined /\ Len(activeEnvironment.elements) > 0
  THEN join(activeEnvironment.elements, <<",", " ">>)
  ELSE <<"-">>

\* Lines 164-172.
getDefaultBackgroundColor(type) ==
  IF type = "error" THEN statusBarBackground.error
  ELSE IF type = "warning" THEN statusBarBackground.warning
  ELSE "undefined"

\* Lines 141 and 150: some element of envs occurs in the title; an option
\* that is not set does not.
someIn(envs, env) ==
  /\ envs # Undefined
  /\ \E i \in 1..Len(envs.elements) : includes(env, envs.elements[i])

\* refreshEnvStatusBarItem consulting the warning environments first.
refreshEnvStatusBarItem_warningFirst(item, fileName, activeEnvironment) ==
  IF config.environmentShowStatusBarItem
  THEN LET env == getEnvironmentTitle(activeEnvironment)
           default == config.environmentStatusBarItemDefaultBackground
       IN  [text |-> env,
            command |-> fileName,
            backgroundColor |->
              IF someIn(config.environmentStatusBarItemWarningEnvs, env)
              THEN IF default # "warning" THEN statusBarBackground.warning ELSE "undefined"
              ELSE IF someIn(config.environmentStatusBarItemErrorEnvs, env)
                   THEN IF default # "error" THEN statusBarBackground.error ELSE "undefined"
                   ELSE getDefaultBackgroundColor(default),
            visible |-> TRUE]
  ELSE [item EXCEPT !.visible = FALSE]

\* Lines 123-162: the status bar item after refreshEnvStatusBarItem(httpFile).
refreshEnvStatusBarItem(item, fileName, activeEnvironment) ==
  IF config.environmentShowStatusBarItem
  THEN LET env == getEnvironmentTitle(activeEnvironment)
           default == config.environmentStatusBarItemDefaultBackground
       IN  [text |-> env,
            command |-> fileName,
            backgroundColor |->
              IF someIn(config.environmentStatusBarItemErrorEnvs, env)
              THEN IF default # "error" THEN statusBarBackground.error ELSE "undefined"
              ELSE IF someIn(config.environmentStatusBarItemWarningEnvs, env)
                   THEN IF default # "warning" THEN statusBarBackground.warning ELSE "undefined"
                   ELSE getDefaultBackgroundColor(default),
            visible |-> TRUE]
  ELSE [item EXCEPT !.visible = FALSE]

\* The documents the editors hold.
FileNames == {"a.http", "b.http"}

\* The settings the StoreController reads, as the extension declares them by
\* default; environmentSelectedOnStart is what config.update stored.
DefaultConfig ==
  [environmentShowStatusBarItem |-> TRUE,
   environmentStatusBarItemDefaultBackground |-> "none",
   environmentStatusBarItemErrorEnvs |-> Undefined,
   environmentStatusBarItemWarningEnvs |-> Undefined,
   environmentStoreSelectedOnStart |-> FALSE,
   environmentPickMany |-> FALSE,
   environmentSelectedOnStart |-> Undefined]

\* Nothing fired yet.
NotFired == [fired |-> FALSE]

\* A slot no toggleEnv command occupies.
IdleToggle ==
  [pc |-> "idle", fileName |-> "", envs |-> <<>>, canPickMany |-> FALSE,
   activeEnvironment |-> Undefined, trace |-> <<>>]

\* Lines 26-44: the controller as constructed, for settings cfg and n slots of
\* toggleEnv; the item is created hidden and no editor is active.
constructor(cfg, n) ==
  /\ config = cfg
  /\ documentStore = [activeEnvironment |-> Undefined]
  /\ httpFiles = [f \in FileNames |-> [activeEnvironment |-> Undefined]]
  /\ environmentChanged = NotFired
  /\ envStatusBarItem = [text |-> <<>>, command |-> "", backgroundColor |-> "undefined",
                         visible |-> FALSE]
  /\ toggle = [c \in 1..n |-> IdleToggle]
  /\ activeEditor = [pc |-> "idle", fileName |-> ""]

\* Lines 175-178: the command starts; without an editor it is over, with one
\* it awaits the document's HttpFile.
ToggleEnv(c, fileName) ==
  /\ toggle[c].pc = "idle"
  /\ toggle' = [toggle EXCEPT ![c] =
       IF fileName = ""
       THEN [IdleToggle EXCEPT !.pc = "done"]
       ELSE [IdleToggle EXCEPT !.pc = "getHttpFile", !.fileName = fileName]]
  /\ UNCHANGED <<types, knownMetaData, req, handlerVars, environmentVars>>
  /\ UNCHANGED <<config, documentStore, httpFiles, environmentChanged, envStatusBarItem, activeEditor>>

\* Lines 178-193: getHttpFile resolved; without an HttpFile the command is
\* over, with one pickEnv is called and awaits getEnvironmentConfig and
\* getEnvironments.
ToggleGetHttpFileResolved(c, found) ==
  /\ toggle[c].pc = "getHttpFile"
  /\ toggle' = [toggle EXCEPT ![c].pc = IF found THEN "getEnvironments" ELSE "done",
                              ![c].fileName = IF found THEN @ ELSE ""]
  /\ UNCHANGED <<types, knownMetaData, req, handlerVars, environmentVars>>
  /\ UNCHANGED <<config, documentStore, httpFiles, environmentChanged, envStatusBarItem, activeEditor>>

\* Lines 190-207: getEnvironments resolved with envs; the quick pick is opened
\* with the environmentPickMany of this moment.
GetEnvironmentsResolved(c, envs) ==
  /\ toggle[c].pc = "getEnvironments"
  /\ toggle' = [toggle EXCEPT ![c].pc = "showQuickPick",
                              ![c].envs = envs,
                              ![c].canPickMany = config.environmentPickMany]
  /\ UNCHANGED <<types, knownMetaData, req, handlerVars, environmentVars>>
  /\ UNCHANGED <<config, documentStore, httpFiles, environmentChanged, envStatusBarItem, activeEditor>>

\* Lines 187-193: getEnvironments rejected; the wrapper of pickEnv hands the
\* error to handleError and pickEnv resolves with undefined.
GetEnvironmentsRejected(c) ==
  /\ toggle[c].pc = "getEnvironments"
  /\ toggle' = [toggle EXCEPT ![c].pc = "pickEnv", ![c].activeEnvironment = Undefined]
  /\ UNCHANGED <<types, knownMetaData, req, handlerVars, environmentVars>>
  /\ UNCHANGED <<config, documentStore, httpFiles, environmentChanged, envStatusBarItem, activeEditor>>

\* Lines 208-222: the quick pick resolved with picked (Undefined: dismissed;
\* else the labels picked, one unless canPickMany). The store is set, the
\* event is fired and, if the selection is to be stored, the update of the
\* configuration is started and awaited.
QuickPickResolved(c, picked) ==
  /\ toggle[c].pc = "showQuickPick"
  /\ documentStore' = [documentStore EXCEPT !.activeEnvironment = picked]
  /\ environmentChanged' = [fired |-> TRUE, value |-> picked]
  /\ toggle' = [toggle EXCEPT
       ![c].activeEnvironment = picked,
       ![c].pc = IF config.environmentStoreSelectedOnStart THEN "update" ELSE "pickEnv",
       ![c].trace = IF config.environmentStoreSelectedOnStart
                    THEN <<"documentStore.activeEnvironment", "fire", "update">>
                    ELSE <<"documentStore.activeEnvironment", "fire">>]
  /\ UNCHANGED <<types, knownMetaData, req, handlerVars, environmentVars>>
  /\ UNCHANGED <<config, httpFiles, envStatusBarItem, activeEditor>>

\* Line 221: the update of environmentSelectedOnStart resolved.
ConfigUpdateResolved(c) ==
  /\ toggle[c].pc = "update"
  /\ config' = [config EXCEPT !.environmentSelectedOnStart = toggle[c].activeEnvironment]
  /\ toggle' = [toggle EXCEPT ![c].pc = "pickEnv"]
  /\ UNCHANGED <<types, knownMetaData, req, handlerVars, environmentVars>>
  /\ UNCHANGED <<documentStore, httpFiles, environmentChanged, envStatusBarItem, activeEditor>>

\* Lines 180-182: the promise of pickEnv resolved; the file takes the
\* environment and the status bar item is refreshed.
PickEnvResolved(c) ==
  /\ toggle[c].pc = "pickEnv"
  /\ httpFiles' = [httpFiles EXCEPT ![toggle[c].fileName].activeEnvironment =
                     toggle[c].activeEnvironment]
  /\ envStatusBarItem' = refreshEnvStatusBarItem(envStatusBarItem, toggle[c].fileName,
                                                 toggle[c].activeEnvironment)
  /\ toggle' = [toggle EXCEPT ![c].pc = "done"]
  /\ UNCHANGED <<types, knownMetaData, req, handlerVars, environmentVars>>
  /\ UNCHANGED <<config, documentStore, environmentChanged, activeEditor>>

\* The command is over; the slot is free for the next one.
ToggleSettled(c) ==
  /\ toggle[c].pc = "done"
  /\ toggle' = [toggle EXCEPT ![c] = IdleToggle]
  /\ UNCHANGED <<types, knownMetaData, req, handlerVars, environmentVars>>
  /\ UNCHANGED <<config, documentStore, httpFiles, environmentChanged, envStatusBarItem, activeEditor>>

\* Lines 40-42 and 112-120: another editor becomes active ("": none, or no
\* http document). With the item enabled, its HttpFile is awaited or the item
\* is hidden; with the item disabled nothing happens.
ActiveTextEditorChanged(fileName) ==
  /\ activeEditor.pc = "idle"
  /\ IF config.environmentShowStatusBarItem
     THEN IF fileName # ""
          THEN /\ activeEditor' = [pc |-> "getHttpFile", fileName |-> fileName]
               /\ UNCHANGED envStatusBarItem
          ELSE /\ envStatusBarItem' = [envStatusBarItem EXCEPT !.visible = FALSE]
               /\ UNCHANGED activeEditor
     ELSE UNCHANGED <<envStatusBarItem, activeEditor>>
  /\ UNCHANGED <<types, knownMetaData, req, handlerVars, environmentVars>>
  /\ UNCHANGED <<config, documentStore, httpFiles, environmentChanged, toggle>>

\* Lines 115-116: getHttpFile resolved for the active editor; the item is
\* refreshed for its file.
EditorGetHttpFileResolved ==
  /\ activeEditor.pc = "getHttpFile"
  /\ envStatusBarItem' = refreshEnvStatusBarItem(envStatusBarItem, activeEditor.fileName,
                                                 httpFiles[activeEditor.fileName].activeEnvironment)
  /\ activeEditor' = [pc |-> "idle", fileName |-> ""]
  /\ UNCHANGED <<types, knownMetaData, req, handlerVars, environmentVars>>
  /\ UNCHANGED <<config, documentStore, httpFiles, environmentChanged, toggle>>

----------------------------------------------------------------------------
\* Inputs.

\* The regions of a document, the last cursor line, and the invocations that
\* overlap.
MaxRegions == 2
MaxLine == 3
MaxRequests == 2

\* The invocations of a wrapped method that overlap.
MaxWrapped == 2

\* The calls of initEnvironmentProvider, the providers others register, and
\* the folders of the workspace.
MaxInits == 3
MaxOthers == 2
MaxFolders == 2

\* The toggleEnv commands that overlap.
MaxToggles == 2

\* The text before the cursor, as typed.
LineTexts ==
  {
    <<>>,
    <<" ">>,
    <<"g", "e">>,
    <<"G", "E">>,
    <<"G", "e">>,
    <<"p">>,
    <<"P", "O">>,
    <<"z", "z">>,
    <<"a">>,
    <<"A">>,
    <<"c", "o">>,
    <<"C", "o">>,
    <<"u">>,
    <<"e">>,
    <<"q">>,
    <<" ", "c">>,
    <<"c", "o", "n", "t", "e", "n", "t", "-", "t", "y", "p", "e", ":", " ">>,
    <<"C", "o", "n", "t", "e", "n", "t", "-", "T", "y", "p", "e", ":", " ", "a">>,
    <<"a", "u", "t", "h", "o", "r", "i", "z", "a", "t", "i", "o", "n", ":", " ">>,
    <<"A", "u", "t", "h", "o", "r", "i", "z", "a", "t", "i", "o", "n", ":", " ", "B">>,
    <<"#">>,
    <<"#", "@">>,
    <<"#", " ", "@", "r", "e">>,
    <<"#", "@", "r", "e", "f">>,
    <<"#", "r", "e", "f">>,
    <<"#", " ", "r", "e", "f", " ", "f", "o", "o">>,
    <<" ", "#", " ", "@", "R", "E", "F">>,
    <<"#", "@", "d", "e", "b", "u", "g", " ", "t">>,
    <<"c", "#">>
  }

CursorLines == 0..MaxLine

\* The shapes of a region: every protocol behind a request line, and an HTTP
\* request behind the other things a preceding line can be.
RegionShapes ==
  {<<p, "requestLine">> : p \in Protocols \cup {NoRequest}}
    \cup {<<"Http", k>> : k \in {"requestHeader", "metaData", "none"}}

RegionNames == {<<>>, <<"f", "o", "o">>, <<"b", "a", "r">>}

\* Documents of 0..MaxRegions consecutive two-line regions; only the first
\* region varies in shape, every region varies in name.
HttpFiles ==
  {NoHttpFile} \cup
  {[httpRegions |->
      [i \in 1..n |-> HttpRegion(2 * (i - 1),
                                 IF i = 1 THEN shape[1] ELSE "Http",
                                 IF i = 1 THEN shape[2] ELSE "requestLine",
                                 names[i])]] :
     n \in 0..MaxRegions, shape \in RegionShapes, names \in [1..MaxRegions -> RegionNames]}

\* mime-types' `types`, as Object.entries lists it.
TypesTables ==
  {<<>>,
   <<[key |-> "json", value |-> <<"a", "p", "p", "l", "i", "c", "a", "t", "i", "o", "n", "/", "j", "s", "o", "n">>],
     [key |-> "txt", value |-> <<"t", "e", "x", "t", "/", "p", "l", "a", "i", "n">>]>>}

\* httpyac.parser.knownMetaData: directives without and with completions.
MetaDataTables ==
  {<<[name |-> <<"n", "a", "m", "e">>, description |-> "name of the region"],
     [name |-> <<"r", "e", "f">>, description |-> "reference to another region"],
     [name |-> <<"f", "o", "r", "c", "e", "R", "e", "f">>, description |-> "reference that is always executed"],
     [name |-> <<"d", "e", "b", "u", "g">>, description |-> "enable debug log",
      completions |-> <<<<"t", "r", "u", "e">>, <<"f", "a", "l", "s", "e">>>>]>>}

\* One invocation at a time, over all the inputs above.
Init ==
  /\ types \in TypesTables
  /\ knownMetaData \in MetaDataTables
  /\ req = [r \in 1..1 |-> IdleRequest]
  /\ showNotificationPopup = TRUE
  /\ wrapped = [c \in 1..1 |-> IdleWrapped]
  /\ environmentStore = [environmentProviders |-> <<>>, refreshed |-> 0]
  /\ environmentController = [environmentProviders |-> NoProviders, calls |-> 0]
  /\ constructor(DefaultConfig, 1)

Next ==
  \/ \E r \in DOMAIN req, text \in LineTexts, line \in CursorLines : Call(r, text, line)
  \/ \E r \in DOMAIN req, httpFile \in HttpFiles : GetHttpFileResolved(r, httpFile)
  \/ \E r \in DOMAIN req : GetHttpFileRejected(r)
  \/ \E r \in DOMAIN req : GetRefNameResolved(r)
  \/ \E r \in DOMAIN req : Settled(r)

Spec == Init /\ [][Next]_vars

\* Overlapping invocations: MaxRequests slots, the host's cancellation, and
\* few inputs (none of them reads `types`): an empty line, a prefix of a
\* method and of headers, a meta comment that is a reference comment too,
\* with the cursor on line 1 of no model, of a model that puts it in header
\* context and of one that does not.
OverlapTexts ==
  {<<>>, <<"c", "o">>, <<"#", "@", "r", "e", "f">>}

OverlapFiles ==
  {NoHttpFile,
   [httpRegions |-> <<HttpRegion(0, "Http", "requestLine", <<"f", "o", "o">>)>>],
   [httpRegions |-> <<HttpRegion(0, "Mqtt", "metaData", <<"f", "o", "o">>)>>]}

InitOverlap ==
  /\ types = <<>>
  /\ knownMetaData \in MetaDataTables
  /\ req = [r \in 1..MaxRequests |-> IdleRequest]
  /\ showNotificationPopup = TRUE
  /\ wrapped = [c \in 1..1 |-> IdleWrapped]
  /\ environmentStore = [environmentProviders |-> <<>>, refreshed |-> 0]
  /\ environmentController = [environmentProviders |-> NoProviders, calls |-> 0]
  /\ constructor(DefaultConfig, 1)

NextOverlap ==
  \/ \E r \in DOMAIN req, text \in OverlapTexts : Call(r, text, 1)
  \/ \E r \in DOMAIN req, httpFile \in OverlapFiles : GetHttpFileResolved(r, httpFile)
  \/ \E r \in DOMAIN req : GetHttpFileRejected(r)
  \/ \E r \in DOMAIN req : GetRefNameResolved(r)
  \/ \E r \in DOMAIN req : CancellationRequested(r)
  \/ \E r \in DOMAIN req : Settled(r)

SpecOverlap == InitOverlap /\ [][NextOverlap]_vars

\* The wrapper alone: MaxWrapped overlapping invocations of a wrapped method
\* that returns, throws, or returns a promise, and the setting either way.
Hows == {"returns", "throws", "promise"}

InitErrorHandler ==
  /\ types = <<>>
  /\ knownMetaData \in MetaDataTables
  /\ req = [r \in 1..1 |-> IdleRequest]
  /\ showNotificationPopup \in BOOLEAN
  /\ wrapped = [c \in 1..MaxWrapped |-> IdleWrapped]
  /\ environmentStore = [environmentProviders |-> <<>>, refreshed |-> 0]
  /\ environmentController = [environmentProviders |-> NoProviders, calls |-> 0]
  /\ constructor(DefaultConfig, 1)

NextErrorHandler ==
  \/ \E c \in DOMAIN wrapped, how \in Hows, err \in Errors : WrapperCalled(c, how, err)
  \/ \E c \in DOMAIN wrapped : MethodResolved(c)
  \/ \E c \in DOMAIN wrapped, err \in Errors : MethodRejected(c, err)
  \/ \E c \in DOMAIN wrapped : MessageDismissed(c)
  \/ ConfigChanged
  \/ \E c \in DOMAIN wrapped : WrapperSettled(c)

SpecErrorHandler == InitErrorHandler /\ [][NextErrorHandler]_vars

\* The environment controller alone: the watched settings change, and others
\* register providers in between.
EnvironmentConfigs ==
  [environmentenvironments : BOOLEAN, dotenvDirname : {"", "absolute", "relative"}]

InitEnvironment ==
  /\ types = <<>>
  /\ knownMetaData \in MetaDataTables
  /\ req = [r \in 1..1 |-> IdleRequest]
  /\ showNotificationPopup = TRUE
  /\ wrapped = [c \in 1..1 |-> IdleWrapped]
  /\ environmentStore = [environmentProviders |-> <<>>, refreshed |-> 0]
  /\ environmentController = [environmentProviders |-> NoProviders, calls |-> 0]
  /\ constructor(DefaultConfig, 1)

NextEnvironment ==
  \/ \E configs \in EnvironmentConfigs, workspaceFolders \in 0..MaxFolders :
       /\ environmentController.calls < MaxInits
       /\ initEnvironmentProvider(configs, workspaceFolders)
  \/ /\ \A i \in 1..Len(environmentStore.environmentProviders) :
          environmentStore.environmentProviders[i].by = "other" =>
            environmentStore.environmentProviders[i].index < MaxOthers
     /\ OtherProviderRegistered

SpecEnvironment == InitEnvironment /\ [][NextEnvironment]_vars

\* The environments getEnvironments finds, and what the quick pick over them
\* can resolve with: undefined, one label, or with canPickMany any of them in
\* their order.
EnvLists ==
  {<<>>, <<<<"d", "e", "v">>, <<"p", "r", "o", "d">>>>}

Picks(envs, canPickMany) ==
  {Undefined} \cup
    (IF canPickMany
     THEN {[elements |-> LET Picked(env) == \E i \in S : envs[i] = env
                         IN  SelectSeq(envs, Picked)] : S \in SUBSET (1..Len(envs))}
     ELSE {[elements |-> <<envs[i]>>] : i \in 1..Len(envs)})

\* Overlapping toggleEnv commands: MaxToggles slots, the selection stored on
\* start or not, one or many picks.
ToggleConfigs ==
  {[DefaultConfig EXCEPT !.environmentStoreSelectedOnStart = store,
                         !.environmentPickMany = many] : store, many \in BOOLEAN}

InitToggle ==
  /\ types = <<>>
  /\ knownMetaData \in MetaDataTables
  /\ req = [r \in 1..1 |-> IdleRequest]
  /\ showNotificationPopup = TRUE
  /\ wrapped = [c \in 1..1 |-> IdleWrapped]
  /\ environmentStore = [environmentProviders |-> <<>>, refreshed |-> 0]
  /\ environmentController = [environmentProviders |-> NoProviders, calls |-> 0]
  /\ \E cfg \in ToggleConfigs : constructor(cfg, MaxToggles)

NextToggle ==
  \/ \E c \in DOMAIN toggle, fileName \in FileNames \cup {""} : ToggleEnv(c, fileName)
  \/ \E c \in DOMAIN toggle, found \in BOOLEAN : ToggleGetHttpFileResolved(c, found)
  \/ \E c \in DOMAIN toggle, envs \in EnvLists : GetEnvironmentsResolved(c, envs)
  \/ \E c \in DOMAIN toggle : GetEnvironmentsRejected(c)
  \/ \E c \in DOMAIN toggle :
       \E picked \in Picks(toggle[c].envs, toggle[c].canPickMany) : QuickPickResolved(c, picked)
  \/ \E c \in DOMAIN toggle : ConfigUpdateResolved(c)
  \/ \E c \in DOMAIN toggle : PickEnvResolved(c)
  \/ \E c \in DOMAIN toggle : ToggleSettled(c)

SpecToggle == InitToggle /\ [][NextToggle]_vars

\* The status bar item: one toggleEnv at a time and the change of the active
\* editor, over the settings of the item; many environments can be picked.
StatusBarConfigs ==
  {[DefaultConfig EXCEPT !.environmentPickMany = TRUE,
                         !.environmentShowStatusBarItem = show,
                         !.environmentStatusBarItemDefaultBackground = default,
                         !.environmentStatusBarItemErrorEnvs = errorEnvs,
                         !.environmentStatusBarItemWarningEnvs = warningEnvs] :
     show \in BOOLEAN,
     default \in {"none", "warning", "error"},
     errorEnvs \in {Undefined, [elements |-> <<<<"p", "r", "o", "d">>>>],
                    [elements |-> <<<<"q", "a">>, <<"p", "r", "o">>>>]},
     warningEnvs \in {Undefined, [elements |-> <<<<"d", "e", "v">>>>],
                      [elements |-> <<<<"p", "r", "o", "d">>>>]}}

InitStatusBar ==
  /\ types = <<>>
  /\ knownMetaData \in MetaDataTables
  /\ req = [r \in 1..1 |-> IdleRequest]
  /\ showNotificationPopup = TRUE
  /\ wrapped = [c \in 1..1 |-> IdleWrapped]
  /\ environmentStore = [environmentProviders |-> <<>>, refreshed |-> 0]
  /\ environmentController = [environmentProviders |-> NoProviders, calls |-> 0]
  /\ \E cfg \in StatusBarConfigs : constructor(cfg, 1)

NextStatusBar ==
  \/ \E c \in DOMAIN toggle, fileName \in FileNames \cup {""} : ToggleEnv(c, fileName)
  \/ \E c \in DOMAIN toggle, found \in BOOLEAN : ToggleGetHttpFileResolved(c, found)
  \/ \E c \in DOMAIN toggle, envs \in EnvLists : GetEnvironmentsResolved(c, envs)
  \/ \E c \in DOMAIN toggle : GetEnvironmentsRejected(c)
  \/ \E c \in DOMAIN toggle :
       \E picked \in Picks(toggle[c].envs, toggle[c].canPickMany) : QuickPickResolved(c, picked)
  \/ \E c \in DOMAIN toggle : PickEnvResolved(c)
  \/ \E c \in DOMAIN toggle : ToggleSettled(c)
  \/ \E fileName \in FileNames \cup {""} : ActiveTextEditorChanged(fileName)
  \/ EditorGetHttpFileResolved

SpecStatusBar == InitStatusBar /\ [][NextStatusBar]_vars

----------------------------------------------------------------------------
\* Vocabulary of the properties.

Requests == DOMAIN req
Resolved(r) == req[r].pc = "resolved"
Labels(items) == [i \in 1..Len(items) |-> items[i].label]

ItemsOfKind(r, kind) ==
  LET OfKind(item) == item.kind = kind
  IN  SelectSeq(req[r].items, OfKind)

\* The header context of a resolved request, from what it was handed.
InHeaderContext(r) == inRequestLineOf(req[r].httpFile, req[r].line)
RegionOf(r) == findHttpRegion(req[r].httpFile, req[r].line)

\* The typed remainder of a meta-comment line: the text after "#", trimmed.
IsCommentLine(r) == startsWith(req[r].textLine, <<"#">>)
Remainder(r) == trim(slice(req[r].textLine, 1))

\* The entries of a table whose name starts, whatever the case, with p.
PrefixMatches(table, p) ==
  LET Match(obj) == startsWith(toLowerCase(obj.name), toLowerCase(p))
  IN  SelectSeq(table, Match)

Names(table) == [i \in 1..Len(table) |-> table[i].name]

MethodNames ==
  <<<<"G", "E", "T">>,
    <<"H", "E", "A", "D">>,
    <<"P", "O", "S", "T">>,
    <<"P", "U", "T">>,
    <<"D", "E", "L", "E", "T", "E">>,
    <<"C", "O", "N", "N", "E", "C", "T">>,
    <<"O", "P", "T", "I", "O", "N", "S">>,
    <<"T", "R", "A", "C", "E">>,
    <<"P", "A", "T", "C", "H">>,
    <<"M", "Q", "T", "T">>,
    <<"W", "S", "S">>,
    <<"S", "S", "E">>,
    <<"G", "R", "P", "C">>>>

\* The position of a name in a sequence of names (0: absent).
PositionIn(names, name) ==
  IF \E i \in 1..Len(names) : names[i] = name
  THEN CHOOSE i \in 1..Len(names) : names[i] = name
  ELSE 0

\* The full names getMetaData can offer, in table order.
FullNames ==
  flatten([i \in 1..Len(knownMetaData) |->
    LET obj == knownMetaData[i]
    IN  IF "completions" \in DOMAIN obj
        THEN [j \in 1..Len(obj.completions) |->
                <<"@">> \o obj.name \o <<" ">> \o obj.completions[j]]
        ELSE <<<<"@">> \o obj.name>>])

----------------------------------------------------------------------------
\* C1: for every non-empty trimmed line text p, in any letter case, the
\* method candidates are exactly the method-table entries whose name starts,
\* case-insensitively, with p, in table order.
C1_MethodFilterIgnoresCase ==
  \A r \in Requests :
    Resolved(r) /\ req[r].textLine # <<>> =>
      Labels(ItemsOfKind(r, "Keyword")) = Names(PrefixMatches(MethodTable, req[r].textLine))

\* C2: in header context the header candidates are exactly the entries of the
\* table of the region's request variant whose name starts, case-insensitively,
\* with the typed text, in table order (the whole table for an empty line); an
\* unknown or absent variant gives no header candidate.
C2_HeadersOfTheVariant ==
  \A r \in Requests :
    Resolved(r) /\ InHeaderContext(r) =>
      LET request == RegionOf(r).request
          table == CASE request = "Http" -> HttpHeaderTable
                     [] request = "Mqtt" -> MqttHeaderTable
                     [] request = "EventSource" -> EventSourceHeaderTable
                     [] request = "Grpc" -> GrpcHeaderTable
                     [] OTHER -> <<>>
      IN  Labels(ItemsOfKind(r, "Field")) = Names(PrefixMatches(table, req[r].textLine))

C2_Witness ==
  \E r \in Requests :
    /\ Resolved(r) /\ InHeaderContext(r)
    /\ RegionOf(r).request = "Mqtt"
    /\ req[r].textLine = <<"u">>
    /\ Labels(ItemsOfKind(r, "Field")) = <<<<"u", "s", "e", "r", "n", "a", "m", "e">>>>

\* C3: an empty line without document model gives exactly the 13 method
\* candidates, in declared order, and nothing else.
C3_EmptyLineNoModel ==
  \A r \in Requests :
    Resolved(r) /\ req[r].textLine = <<>> /\ req[r].httpFile = NoHttpFile =>
      /\ Labels(req[r].items) = MethodNames
      /\ \A i \in 1..Len(req[r].items) : req[r].items[i].kind = "Keyword"

C3_Witness ==
  \E r \in Requests :
    /\ Resolved(r) /\ req[r].textLine = <<>> /\ req[r].httpFile = NoHttpFile
    /\ Len(req[r].items) = Len(MethodNames)

\* C4: on a line containing "content-type" in header context the mime-type
\* candidates are one per entry of the extension mapping (name: the content
\* type, description: the extension) followed by the synthetic candidate
\* application/x-www-form-urlencoded, whatever the mapping holds.
C4_MimeTypes ==
  \A r \in Requests :
    Resolved(r) /\ InHeaderContext(r)
      /\ includes(toLowerCase(req[r].textLine), <<"c", "o", "n", "t", "e", "n", "t", "-", "t", "y", "p", "e">>) =>
      LET values == ItemsOfKind(r, "Value")
          n == Len(types)
      IN  /\ Len(values) >= n + 1
          /\ \A i \in 1..n : /\ values[i].label = types[i].value
                             /\ values[i].detail = types[i].key
          /\ values[n + 1].label = <<"a", "p", "p", "l", "i", "c", "a", "t", "i", "o", "n", "/", "x", "-", "w", "w", "w", "-", "f", "o", "r", "m", "-", "u", "r", "l", "e", "n", "c", "o", "d", "e", "d">>
          /\ ~includes(toLowerCase(req[r].textLine), <<"a", "u", "t", "h", "o", "r", "i", "z", "a", "t", "i", "o", "n">>) =>
               Len(values) = n + 1

C4_Witness ==
  \E r \in Requests :
    /\ Resolved(r) /\ InHeaderContext(r)
    /\ req[r].textLine = <<"c", "o", "n", "t", "e", "n", "t", "-", "t", "y", "p", "e", ":">>
    /\ types = <<>>
    /\ Labels(ItemsOfKind(r, "Value")) = <<<<"a", "p", "p", "l", "i", "c", "a", "t", "i", "o", "n", "/", "x", "-", "w", "w", "w", "-", "f", "o", "r", "m", "-", "u", "r", "l", "e", "n", "c", "o", "d", "e", "d">>>>

C6_NoDeduplication ==
  \A r \in Requests :
    Resolved(r) /\ IsCommentLine(r) /\ req[r].httpFile # NoHttpFile
      /\ includes(toLowerCase(req[r].textLine), <<"r", "e", "f">>) =>
      \A name \in RegionNames \ {<<>>} :
        LET regions == req[r].httpFile.httpRegions
            references == ItemsOfKind(r, "Reference")
        IN  Cardinality({i \in 1..Len(references) : references[i].label = name})
              = Cardinality({i \in 1..Len(regions) : regions[i].metaData.name = name})

C6_Witness ==
  \E r \in Requests :
    /\ Resolved(r) /\ req[r].textLine = <<"#", " ", "r", "e", "f", " ", "f", "o", "o">>
    /\ req[r].httpFile # NoHttpFile
    /\ Cardinality({i \in 1..Len(req[r].httpFile.httpRegions) :
                      req[r].httpFile.httpRegions[i].metaData.name = <<"f", "o", "o">>}) = 2
    /\ Labels(ItemsOfKind(r, "Reference")) = <<<<"f", "o", "o">>, <<"f", "o", "o">>>>

StreamOf(item) ==
  CASE item.kind = "Keyword" -> 1
    [] item.kind = "Field" /\ item.label[1] # "@" -> 2
    [] item.kind = "Value" /\ item.label \notin {AuthorizationTable[i].name : i \in 1..Len(AuthorizationTable)} -> 3
    [] item.kind = "Value" -> 4
    [] item.kind = "Field" -> 5
    [] item.kind = "Reference" -> 6

C9_CancelledReturnsNothing ==
  \A r \in Requests :
    Resolved(r) /\ req[r].cancelled = "getHttpFile" => req[r].items = <<>>

\* C10: provideCompletionItems never rejects: without a model, or with a
\* failing getHttpFile, it still resolves with a candidate list.
C10_NeverRejects ==
  \A r \in Requests : req[r].pc # "rejected"

----------------------------------------------------------------------------
\* The meta-directive items of a request: the Field items named "@...".
MetaItems(r) ==
  LET IsMeta(item) == item.kind = "Field" /\ item.label[1] = "@"
  IN  SelectSeq(req[r].items, IsMeta)

\* The full names whose directive passes the test of line 635 for the
\* remainder t: t is empty or "@<directive>" starts with t.
DirectiveMatches(t) ==
  flatten([i \in 1..Len(knownMetaData) |->
    LET obj == knownMetaData[i]
    IN  IF Len(t) = 0 \/ startsWith(<<"@">> \o obj.name, t)
        THEN IF "completions" \in DOMAIN obj
             THEN [j \in 1..Len(obj.completions) |->
                     <<"@">> \o obj.name \o <<" ">> \o obj.completions[j]]
             ELSE <<<<"@">> \o obj.name>>
        ELSE <<>>])

C12_InsertTextIsSuffix ==
  \A r \in Requests :
    Resolved(r) /\ IsCommentLine(r) /\ ~InHeaderContext(r) =>
      \A i \in 1..Len(MetaItems(r)) :
        Remainder(r) \o MetaItems(r)[i].insertText = MetaItems(r)[i].label

\* The variants a header table exists for.
DeterminableVariants == {"Http", "Mqtt", "EventSource", "Grpc"}

\* The symbol tree of the enclosing region tags the line before the cursor
\* line as request line or request header: the first child symbol starting
\* there has one of the two kinds.
PreLineTagged(r) ==
  /\ RegionOf(r) # NoHttpRegion
  /\ LET children == RegionOf(r).symbol.children
     IN  \E i \in 1..Len(children) :
           /\ children[i].startLine = req[r].line - 1
           /\ children[i].kind \in {"requestLine", "requestHeader"}
           /\ \A j \in 1..(i - 1) : children[j].startLine # req[r].line - 1

ContainsContentType(r) ==
  includes(toLowerCase(req[r].textLine), <<"c", "o", "n", "t", "e", "n", "t", "-", "t", "y", "p", "e">>)

ContainsAuthorization(r) ==
  includes(toLowerCase(req[r].textLine), <<"a", "u", "t", "h", "o", "r", "i", "z", "a", "t", "i", "o", "n">>)

\* C13 as stated: header context applies to the cursor line if and only if an
\* enclosing region exists, its request has a determinable variant, and the
\* symbol tree tags the preceding line as request line or request header.
C13_HeaderContextNeedsVariant ==
  \A r \in Requests :
    Resolved(r) =>
      (InHeaderContext(r) <=>
         /\ PreLineTagged(r)
         /\ RegionOf(r).request \in DeterminableVariants)

\* C13 amended: header context applies if and only if an enclosing region
\* exists and its symbol tree tags the preceding line as request line or
\* request header, whatever the region's request is; without enclosing region
\* it never applies.  It shows in the result: a line containing "content-type"
\* gets mime-type candidates, and an empty line in a region with a
\* determinable variant gets header candidates, exactly in header context.
C13_HeaderContext ==
  \A r \in Requests :
    Resolved(r) =>
      /\ InHeaderContext(r) <=> PreLineTagged(r)
      /\ RegionOf(r) = NoHttpRegion => ~InHeaderContext(r)
      /\ ContainsContentType(r) =>
           (ItemsOfKind(r, "Value") # <<>> <=> PreLineTagged(r))
      /\ (/\ req[r].textLine = <<>>
          /\ RegionOf(r) # NoHttpRegion
          /\ RegionOf(r).request \in DeterminableVariants) =>
           (ItemsOfKind(r, "Field") # <<>> <=> PreLineTagged(r))

C13_Witness ==
  \E r \in Requests :
    /\ Resolved(r) /\ PreLineTagged(r) /\ InHeaderContext(r)
    /\ RegionOf(r).request = "WebSocket"
    /\ ContainsContentType(r)
    /\ ItemsOfKind(r, "Value") # <<>>

\* C14: meta-directive candidates are produced exactly when the trimmed line
\* begins with # and the line is not in header context (then: those its
\* remainder matches, all of them for an empty remainder); a # line in header
\* context and a line not beginning with # never yield them.
C14_MetaOnlyOutsideHeaderContext ==
  \A r \in Requests :
    Resolved(r) =>
      /\ MetaItems(r) # <<>> => IsCommentLine(r) /\ ~InHeaderContext(r)
      /\ IsCommentLine(r) /\ InHeaderContext(r) => MetaItems(r) = <<>>
      /\ ~IsCommentLine(r) => MetaItems(r) = <<>>
      /\ IsCommentLine(r) /\ ~InHeaderContext(r) =>
           /\ Labels(MetaItems(r)) = DirectiveMatches(Remainder(r))
           /\ Remainder(r) = <<>> => Labels(MetaItems(r)) = FullNames

C14_Witness ==
  \E r \in Requests :
    /\ Resolved(r) /\ req[r].textLine = <<"#">>
    /\ RegionOf(r) # NoHttpRegion /\ ~InHeaderContext(r)
    /\ Labels(MetaItems(r)) = FullNames
    /\ FullNames # <<>>

\* The labels the mime-type stream yields: the extension mapping's content
\* types and the synthetic one.
MimeLabels ==
  [i \in 1..Len(types) |-> types[i].value]
    \o <<<<"a", "p", "p", "l", "i", "c", "a", "t", "i", "o", "n", "/", "x", "-", "w", "w", "w", "-", "f", "o", "r", "m", "-", "u", "r", "l", "e", "n", "c", "o", "d", "e", "d">>>>

AuthSchemeLabels ==
  <<<<"B", "a", "s", "i", "c">>, <<"D", "i", "g", "e", "s", "t">>, <<"A", "W", "S">>,
    <<"O", "A", "u", "t", "h", "2">>, <<"O", "p", "e", "n", "I", "d">>,
    <<"B", "e", "a", "r", "e", "r">>>>

\* C15 as stated: mime-type and authorization candidates are produced only in
\* header context, that is only with an enclosing region whose request has a
\* determinable variant.
C15_ValuesNeedVariant ==
  \A r \in Requests :
    Resolved(r) /\ ItemsOfKind(r, "Value") # <<>> =>
      /\ InHeaderContext(r)
      /\ RegionOf(r) # NoHttpRegion
      /\ RegionOf(r).request \in DeterminableVariants

\* C15, amended: the Value candidates are the mime types, when the line is in
\* header context and contains "content-type" in any case, followed by Basic,
\* Digest, AWS, OAuth2, OpenId, Bearer, when the line is in header context and
\* contains "authorization" in any case; outside header context, that is
\* unless the first symbol starting on the preceding line is a request line or
\* a request header of the enclosing region, there is none, whatever the
\* region's request is.
C15_ValuesOnlyInHeaderContext ==
  \A r \in Requests :
    Resolved(r) =>
      /\ Labels(ItemsOfKind(r, "Value")) =
           (IF InHeaderContext(r) /\ ContainsContentType(r) THEN MimeLabels ELSE <<>>)
             \o (IF InHeaderContext(r) /\ ContainsAuthorization(r) THEN AuthSchemeLabels ELSE <<>>)
      /\ ~PreLineTagged(r) => ItemsOfKind(r, "Value") = <<>>

C15_Witness ==
  \E r \in Requests :
    /\ Resolved(r) /\ InHeaderContext(r)
    /\ RegionOf(r).request \notin DeterminableVariants
    /\ ContainsAuthorization(r) /\ ~ContainsContentType(r)
    /\ req[r].textLine # toLowerCase(req[r].textLine)
    /\ Labels(ItemsOfKind(r, "Value")) = AuthSchemeLabels

\* The names of the named regions of the document a request was handed, in
\* document order.
RegionNamesOf(r) ==
  LET regions == req[r].httpFile.httpRegions
      Named(obj) == obj.metaData.name # <<>>
      named == SelectSeq(regions, Named)
  IN  [i \in 1..Len(named) |-> named[i].metaData.name]

IsReferenceLine(r) ==
  /\ IsCommentLine(r)
  /\ includes(toLowerCase(req[r].textLine), <<"r", "e", "f">>)
  /\ req[r].httpFile # NoHttpFile

\* C16: Reference candidates are returned exactly when the trimmed line begins
\* with # and contains "ref" in any case and a document model exists; they are
\* one per named region of the document, in document order, labelled with the
\* region's name and described as 'httpRegion name'; no candidate has an empty
\* name.
C16_ReferenceCandidates ==
  \A r \in Requests :
    Resolved(r) =>
      LET refs == ItemsOfKind(r, "Reference")
      IN  /\ Labels(refs) = (IF IsReferenceLine(r) THEN RegionNamesOf(r) ELSE <<>>)
          /\ \A i \in 1..Len(refs) : /\ refs[i].detail = "httpRegion name"
                                     /\ refs[i].label # <<>>

C16_Witness ==
  \E r \in Requests :
    /\ Resolved(r) /\ IsReferenceLine(r)
    /\ req[r].textLine # toLowerCase(req[r].textLine)
    /\ Len(req[r].httpFile.httpRegions) = 2
    /\ \E i \in 1..2 : req[r].httpFile.httpRegions[i].metaData.name = <<>>
    /\ Len(ItemsOfKind(r, "Reference")) = 1

\* What a directive the typed remainder t matches expands into: label and
\* description of each candidate, in order.
Expansion(obj) ==
  IF "completions" \in DOMAIN obj
  THEN [j \in 1..Len(obj.completions) |->
          <<<<"@">> \o obj.name \o <<" ">> \o obj.completions[j], obj.description>>]
  ELSE <<<<<<"@">> \o obj.name, obj.description>>>>

DirectiveIsMatched(obj, t) == Len(t) = 0 \/ startsWith(<<"@">> \o obj.name, t)

\* C17: a matched directive with k sub-completions yields exactly k
\* candidates named "@<directive> <subcompletion>", in sub-completion order,
\* and none for the bare "@<directive>"; a matched directive without
\* sub-completions yields exactly one, named "@<directive>"; each carries the
\* directive's description.
C17_SubCompletionsExpand ==
  \A r \in Requests :
    Resolved(r) /\ IsCommentLine(r) /\ ~InHeaderContext(r) =>
      LET meta == MetaItems(r)
          t == Remainder(r)
      IN  /\ [i \in 1..Len(meta) |-> <<meta[i].label, meta[i].detail>>] =
               flatten([i \in 1..Len(knownMetaData) |->
                          IF DirectiveIsMatched(knownMetaData[i], t)
                          THEN Expansion(knownMetaData[i])
                          ELSE <<>>])
          /\ \A i \in 1..Len(knownMetaData) :
               "completions" \in DOMAIN knownMetaData[i] =>
                 \A j \in 1..Len(meta) : meta[j].label # <<"@">> \o knownMetaData[i].name

C17_Witness ==
  \E r \in Requests :
    /\ Resolved(r) /\ ~InHeaderContext(r)
    /\ req[r].textLine = <<"#", "@">>
    /\ Labels(MetaItems(r)) =
         << <<"@", "n", "a", "m", "e">>, <<"@", "r", "e", "f">>,
            <<"@", "f", "o", "r", "c", "e", "R", "e", "f">>,
            <<"@", "d", "e", "b", "u", "g", " ", "t", "r", "u", "e">>,
            <<"@", "d", "e", "b", "u", "g", " ", "f", "a", "l", "s", "e">> >>

\* C18: on a # line outside header context a candidate with full name N
\* ("@<directive>" or "@<directive> <subcompletion>") is returned if and only
\* if the typed remainder t is empty or N starts with t, the case of letters
\* counting; hence a remainder reaching into a sub-completion returns the
\* sub-completion candidates whose full name starts with it.
C18_FullNamePrefix ==
  \A r \in Requests :
    Resolved(r) /\ IsCommentLine(r) /\ ~InHeaderContext(r) =>
      LET t == Remainder(r)
          Returned(N) == Len(t) = 0 \/ startsWith(N, t)
      IN  Labels(MetaItems(r)) = SelectSeq(FullNames, Returned)

C20_WrappedNeverFails ==
  \A c \in DOMAIN wrapped :
    LET w == wrapped[c]
    IN  /\ w.promise # "rejected"
        /\ w.method = "throws" => w.returned = "undefined"
        /\ w.method = "promise" /\ w.err # NoError /\ w.promise # "pending" =>
             w.handler = "finished"
        /\ w.method = "returns" => w.returned = "result"
        /\ w.method = "promise" /\ w.err = NoError /\ w.promise # "pending" =>
             w.promise = "fulfilled" /\ w.value = "result"
        /\ w.logged = (IF w.err # NoError THEN 1 ELSE 0)
        /\ Len(w.shown) = (IF w.err # NoError /\ w.popup THEN 1 ELSE 0)

\* The providers of a list somebody else created, and those the controller
\* created.
ForeignProviders(providers) ==
  LET Foreign(obj) == obj.by = "other"
  IN  SelectSeq(providers, Foreign)

ControllerProviders(providers) ==
  LET Own(obj) == obj.by = "controller"
  IN  SelectSeq(providers, Own)

\* C21: a call of initEnvironmentProvider leaves in the store exactly the
\* providers the controller did not create, all of them and in their order,
\* followed by the providers the call created, and refreshes the store once;
\* after every step no provider of an earlier call is registered, none is
\* registered twice, and every provider of others is still there.
C21_ProvidersReplaced ==
  [][LET before == environmentStore.environmentProviders
         after == environmentStore'.environmentProviders
         calls == environmentController'.calls
     IN  /\ calls # environmentController.calls =>
              /\ after = ForeignProviders(before)
                           \o environmentController'.environmentProviders.elements
              /\ ControllerProviders(after) =
                   environmentController'.environmentProviders.elements
              /\ environmentStore'.refreshed = environmentStore.refreshed + 1
         /\ \A i \in 1..Len(after) :
              after[i].by = "controller" => after[i].call = calls
         /\ \A i, j \in 1..Len(after) : after[i] = after[j] => i = j
         /\ \A i \in 1..Len(ForeignProviders(before)) :
              ForeignProviders(after)[i] = ForeignProviders(before)[i]]_vars

C21_Witness ==
  LET registered == environmentStore.environmentProviders
  IN  /\ environmentController.calls = 2
      /\ Len(ForeignProviders(registered)) = 2
      /\ Len(ControllerProviders(registered)) = 3
      /\ registered[1].by = "other"
      /\ registered[2].by = "other"
      /\ registered[3].type = "JsonEnvProvider"

\* C22: when a toggleEnv command completes for a file, the file's
\* activeEnvironment is documentStore.activeEnvironment and the value fired
\* last on environmentChanged, also when commands overlap at their awaits;
\* within a pick the store is set before the event is fired and the event is
\* fired before the selection is stored in the configuration.
C22_ToggleEnvConsistent ==
  [][\A c \in DOMAIN toggle :
       (/\ toggle[c].pc # "done"
        /\ toggle'[c].pc = "done"
        /\ toggle'[c].fileName # "") =>
         LET activeEnvironment == httpFiles'[toggle'[c].fileName].activeEnvironment
         IN  /\ activeEnvironment = documentStore'.activeEnvironment
             /\ environmentChanged'.fired => environmentChanged'.value = activeEnvironment
             /\ toggle'[c].trace \in
                  {<<>>,
                   <<"documentStore.activeEnvironment", "fire">>,
                   <<"documentStore.activeEnvironment", "fire", "update">>}]_vars

\* The files refreshEnvStatusBarItem is called for in a step: that of a
\* toggleEnv whose pick returns, that of the editor whose HttpFile arrives.
RefreshedFiles ==
  {toggle[c].fileName :
     c \in {d \in DOMAIN toggle : toggle[d].pc = "pickEnv" /\ toggle'[d].pc = "done"}}
    \cup (IF activeEditor.pc = "getHttpFile" /\ activeEditor'.pc = "idle"
          THEN {activeEditor.fileName}
          ELSE {})

\* C23: refreshEnvStatusBarItem shows the item if and only if
\* environmentShowStatusBarItem is on; shown, its background is, if the title
\* contains a configured error environment, the error colour, or none when
\* the default background is 'error', whatever the warning environments are;
\* else, if the title contains a configured warning environment, the warning
\* colour, or none when the default is 'warning'; else the default.
C23_ErrorBeforeWarning ==
  [][\A f \in RefreshedFiles :
         LET title == getEnvironmentTitle(httpFiles'[f].activeEnvironment)
             default == config.environmentStatusBarItemDefaultBackground
             Contains(envs) ==
               /\ envs # Undefined
               /\ \E i \in 1..Len(envs.elements) : includes(title, envs.elements[i])
         IN  /\ envStatusBarItem'.visible = config.environmentShowStatusBarItem
             /\ config.environmentShowStatusBarItem =>
                  /\ envStatusBarItem'.text = title
                  /\ envStatusBarItem'.backgroundColor =
                       (IF Contains(config.environmentStatusBarItemErrorEnvs)
                        THEN IF default = "error" THEN "undefined"
                             ELSE "statusBarItem.errorBackground"
                        ELSE IF Contains(config.environmentStatusBarItemWarningEnvs)
                             THEN IF default = "warning" THEN "undefined"
                                  ELSE "statusBarItem.warningBackground"
                             ELSE IF default = "error" THEN "statusBarItem.errorBackground"
                                  ELSE IF default = "warning" THEN "statusBarItem.warningBackground"
                                       ELSE "undefined")]_vars

C23_Witness ==
  /\ envStatusBarItem.visible
  /\ envStatusBarItem.text = <<"d", "e", "v", ",", " ", "p", "r", "o", "d">>
  /\ config.environmentStatusBarItemErrorEnvs = [elements |-> <<<<"q", "a">>, <<"p", "r", "o">>>>]
  /\ config.environmentStatusBarItemWarningEnvs = [elements |-> <<<<"d", "e", "v">>>>]
  /\ config.environmentStatusBarItemDefaultBackground = "warning"
  /\ envStatusBarItem.backgroundColor = "statusBarItem.errorBackground"

====
